---- MODULE Spec2Model ----
(***************************************************************************)
(* State-machine model of skillkit's session stores and view builders:     *)
(*   - ActivityLog      (packages/core/src/session/activity-log.ts)        *)
(*   - SnapshotManager  (packages/core/src/session/snapshot-manager.ts)    *)
(*   - SessionTimeline  (packages/core/src/session/timeline.ts)            *)
(*                                                                         *)
(* Strings that the code inspects character by character (snapshot names,  *)
(* event sources, skill filters) are sequences of one-character tokens.    *)
(* A timestamp string is a record [ok, ms]: ok is whether `new Date(s)`    *)
(* parses it, ms is the epoch value it parses to.  A YAML file is a record *)
(* [kind |-> "garbage"] (parse throws), [kind |-> "null"] (parses to       *)
(* null) or [kind |-> "map", doc |-> r] where r is a record holding        *)
(* exactly the keys the document holds.                                    *)
(***************************************************************************)
EXTENDS Integers, Sequences, FiniteSets, TLC

VARIABLES
  now,          \* the wall clock read by `new Date()`
  dirs,         \* the directories that exist on disk
  files,        \* path -> content of every regular file on disk
  actData,      \* ActivityLog.data of each instance: <<>> is null
  actL0,        \* the activity list stored before the first call
  actRecorded,  \* the entries passed to record() so far, oldest first
  snapRet,      \* outcome of the last SnapshotManager call
  snapPre,      \* <<dirs, files>> as they were when that call began
  snapTouched,  \* the paths that call read, wrote, created or removed
  snapSaved,    \* name -> arguments of the last save not deleted since
  tlSrc,        \* the stores SessionTimeline.build reads
  tlOpts,       \* the options SessionTimeline.build is called with
  tlRet,        \* outcome of the last SessionTimeline.build call
  callArgs,     \* the arguments the read-only call under study is made with
  callRet       \* outcome of the last such call

vars == <<now, dirs, files, actData, actL0, actRecorded,
          snapRet, snapPre, snapTouched, snapSaved, tlSrc, tlOpts, tlRet,
          callArgs, callRet>>

actVars  == <<actData, actL0, actRecorded>>
snapVars == <<snapRet, snapPre, snapTouched, snapSaved>>
tlVars   == <<tlSrc, tlOpts, tlRet>>
callVars == <<callArgs, callRet>>

(***************************************************************************)
(* Bounds of the model.                                                    *)
(***************************************************************************)
MaxClock == 1
MaxRecords == 3

(***************************************************************************)
(* Generic helpers.                                                        *)
(***************************************************************************)
Ts(ms) == [ok |-> TRUE, ms |-> ms]
BadTs == [ok |-> FALSE, ms |-> 0]

Range(s) == {s[i] : i \in DOMAIN s}

Take(s, n) == SubSeq(s, 1, IF n < Len(s) THEN n ELSE Len(s))

RECURSIVE Reverse(_)
Reverse(s) == IF s = <<>> THEN <<>> ELSE Append(Reverse(Tail(s)), Head(s))

(***************************************************************************)
(* The file system: node:path join and the node:fs calls the code uses.    *)
(* A path is a sequence of segments, a segment a sequence of tokens.       *)
(***************************************************************************)
ProjectPath == << <<"proj">> >>

RECURSIVE SplitSlash(_, _, _)
SplitSlash(chars, cur, acc) ==
  IF chars = <<>> THEN Append(acc, cur)
  ELSE IF Head(chars) = "/" THEN SplitSlash(Tail(chars), <<>>, Append(acc, cur))
  ELSE SplitSlash(Tail(chars), Append(cur, Head(chars)), acc)

RECURSIVE Normalize(_, _)
Normalize(base, segs) ==
  IF segs = <<>> THEN base
  ELSE LET s == Head(segs) IN
       IF s = <<>> \/ s = <<".">> THEN Normalize(base, Tail(segs))
       ELSE IF s = <<".", ".">>
            THEN Normalize(IF base = <<>> THEN base
                           ELSE SubSeq(base, 1, Len(base) - 1), Tail(segs))
       ELSE Normalize(Append(base, s), Tail(segs))

Join(dir, rel) == Normalize(dir, SplitSlash(rel, <<>>, <<>>))

Parent(p) == SubSeq(p, 1, Len(p) - 1)

existsSync(ds, fs, p) == p \in ds \/ p \in DOMAIN fs

mkdirSync(ds, p) == ds \cup {SubSeq(p, 1, k) : k \in 1..Len(p)}

WriteFile(fs, p, c) == [q \in DOMAIN fs \cup {p} |-> IF q = p THEN c ELSE fs[q]]

RemoveFile(fs, p) == [q \in DOMAIN fs \ {p} |-> fs[q]]

Garbage == [kind |-> "garbage"]
MapDoc(r) == [kind |-> "map", doc |-> r]

(***************************************************************************)
(* ActivityLog.                                                            *)
(***************************************************************************)
ActivityCap == 500

Instances == {"log", "peer", "timeline", "lineage", "handoff"}

SkillkitDir == Join(ProjectPath, <<".skillkit">>)
ActivityFile == Join(SkillkitDir, <<"activity", ".yaml">>)

createEmpty == [version |-> 1, activities |-> <<>>]

\* mutant of load: the file is read again on every call
load_noCache(i) ==
  IF ~existsSync(dirs, files, ActivityFile) THEN createEmpty
  ELSE IF ActivityFile \notin DOMAIN files THEN createEmpty
  ELSE LET c == files[ActivityFile] IN
       IF c.kind = "map" /\ "activities" \in DOMAIN c.doc THEN c.doc
       ELSE createEmpty

\* load(): the cached document, else the one read from disk, else empty
load(i) ==
  IF actData[i] # <<>> THEN actData[i][1]
  ELSE IF ~existsSync(dirs, files, ActivityFile) THEN createEmpty
  ELSE IF ActivityFile \notin DOMAIN files THEN createEmpty
  ELSE LET c == files[ActivityFile] IN
       IF c.kind = "map" /\ "activities" \in DOMAIN c.doc THEN c.doc
       ELSE createEmpty

\* mutant of Unshift: Array.prototype.push instead of unshift
Unshift_push(s, e) == Append(s, e)

Unshift(s, e) == <<e>> \o s

CapActivities(s) == IF Len(s) > ActivityCap THEN SubSeq(s, 1, ActivityCap) ELSE s

NewActivity(entry) ==
  [commitSha |-> entry.commitSha, committedAt |-> Ts(now),
   activeSkills |-> entry.activeSkills, filesChanged |-> entry.filesChanged,
   message |-> entry.message]

\* mutant of record: save() writes without creating the directory
record_noMkdir(i, entry) ==
  LET data == load(i)
      acts == CapActivities(Unshift(data.activities, NewActivity(entry)))
      saved == [data EXCEPT !.activities = acts]
  IN /\ actData' = [actData EXCEPT ![i] = <<saved>>]
     /\ dirs' = dirs
     /\ files' = WriteFile(files, ActivityFile, MapDoc(saved))

record(i, entry) ==
  LET data == load(i)
      acts == CapActivities(Unshift(data.activities, NewActivity(entry)))
      saved == [data EXCEPT !.activities = acts]
  IN /\ actData' = [actData EXCEPT ![i] = <<saved>>]
     /\ dirs' = IF existsSync(dirs, files, SkillkitDir) THEN dirs
                ELSE mkdirSync(dirs, SkillkitDir)
     /\ files' = WriteFile(files, ActivityFile, MapDoc(saved))

ActRecord ==
  LET RecordInputs ==
        LET Shas == { <<"a", "b", "c", "d", "1">>, <<"a", "b", "c", "d", "2">> }
        IN
        [commitSha : Shas, message : {<<"m">>},
         activeSkills : {<<>>, << <<"a">> >>, << <<"a">>, <<"b">> >>},
         filesChanged : {<< <<"f">> >>}]
  IN
  /\ Len(actRecorded) < MaxRecords
  /\ \E entry \in RecordInputs :
       /\ record("log", entry)
       /\ actRecorded' = Append(actRecorded, NewActivity(entry))
  /\ UNCHANGED <<now, actL0, snapVars, tlVars, callVars>>

Tick ==
  /\ now < MaxClock
  /\ now' = now + 1
  /\ UNCHANGED <<dirs, files, actVars, snapVars, tlVars, callVars>>

NoTlRet == [op |-> "none"]
NoCall == [op |-> "none"]

IdleSnapshot ==
  LET NoSnapRet == [op |-> "none", name |-> <<>>, error |-> "", value |-> <<>>]
  IN
  /\ snapRet = NoSnapRet
  /\ snapPre = <<{}, <<>>>>
  /\ snapTouched = {}
  /\ snapSaved = <<>>

IdleCalls ==
  /\ callArgs = NoCall
  /\ callRet = NoCall

IdleTimeline ==
  LET NoTlSrc == [unused |-> TRUE]
  IN
  /\ tlSrc = NoTlSrc
  /\ tlOpts = [k \in {} |-> k]
  /\ tlRet = NoTlRet

InitActivity ==
  LET StoredLog(n) ==
        LET \* an entry of the initially stored log: entry k was committed k ms before 0
            OldEntry(k) ==
              [commitSha |-> <<"o", "l", "d", "0">>, committedAt |-> Ts(0 - k),
               activeSkills |-> << <<"a">> >>, filesChanged |-> << <<"f">> >>,
               message |-> <<"m">>]
        IN
                      [k \in 1..n |-> OldEntry(k)]
      InitLens == {0, 1, ActivityCap - 2, ActivityCap - 1, ActivityCap}
  IN
  /\ now = 0
  /\ actData = [i \in Instances |-> <<>>]
  /\ actRecorded = <<>>
  /\ \/ /\ dirs = {ProjectPath}
        /\ files = <<>>
        /\ actL0 = <<>>
     \/ \E n \in InitLens :
          /\ dirs = mkdirSync({}, SkillkitDir)
          /\ actL0 = StoredLog(n)
          /\ files = WriteFile(<<>>, ActivityFile,
                               MapDoc([version |-> 1, activities |-> actL0]))
  /\ IdleSnapshot
  /\ IdleCalls
  /\ IdleTimeline

NextActivity == ActRecord \/ Tick

SpecActivity == InitActivity /\ [][NextActivity]_vars

(***************************************************************************)
(* Session documents (types.ts).  An optional field that is undefined is   *)
(* a key the record does not have.                                         *)
(***************************************************************************)
HistA ==
  [skillName |-> <<"a">>, skillSource |-> <<"s">>, completedAt |-> Ts(1),
   durationMs |-> 1000, status |-> "completed", commits |-> <<>>,
   filesModified |-> << <<"f">> >>]

HistB ==
  [skillName |-> <<"b">>, skillSource |-> <<"s">>, completedAt |-> Ts(2),
   durationMs |-> 2000, status |-> "failed", commits |-> <<>>,
   filesModified |-> <<>>]

SessionOf(hist) ==
  [version |-> 1, lastActivity |-> Ts(2), projectPath |-> ProjectPath,
   history |-> hist, decisions |-> <<>>]

ObsA ==
  [id |-> <<"o", "1">>, timestamp |-> Ts(1), sessionId |-> <<"s", "1">>,
   agent |-> <<"c">>, type |-> "error", content |-> [action |-> <<"x">>],
   relevance |-> 80]

(***************************************************************************)
(* SnapshotManager.                                                        *)
(***************************************************************************)
SnapshotsDir == Join(Join(ProjectPath, <<".skillkit">>), <<"snapshots">>)

Lower == {"a", "b", "c", "d", "e", "f", "g", "h", "i", "j", "k", "l", "m",
          "n", "o", "p", "q", "r", "s", "t", "u", "v", "w", "x", "y", "z"}
Upper == {"A", "B", "C", "D", "E", "F", "G", "H", "I", "J", "K", "L", "M",
          "N", "O", "P", "Q", "R", "S", "T", "U", "V", "W", "X", "Y", "Z"}
Digit == {"0", "1", "2", "3", "4", "5", "6", "7", "8", "9"}

\* mutant of SAFE_NAME_RE: the class also admits the dot
SAFE_NAME_RE_dot(name) ==
  /\ Len(name) >= 1
  /\ \A k \in DOMAIN name : name[k] \in Lower \cup Upper \cup Digit \cup {"_", "-", "."}

\* /^[a-zA-Z0-9_-]+$/.test(name)
SAFE_NAME_RE(name) ==
  /\ Len(name) >= 1
  /\ \A k \in DOMAIN name : name[k] \in Lower \cup Upper \cup Digit \cup {"_", "-"}

\* sanitizeName: TRUE when it returns the name, FALSE when it throws
sanitizeName(name) == ~(name = <<>>) /\ SAFE_NAME_RE(name)

getPath(name) == Join(SnapshotsDir, name \o <<".yaml">>)

InvalidName == "invalid name"

Ret(op, name, error, value) ==
  [op |-> op, name |-> name, error |-> error, value |-> value]

\* what one call does: its outcome, the disk after it, the paths it used
Effect(ret, ds, fs, touched) ==
  [ret |-> ret, dirs |-> ds, files |-> fs, touched |-> touched]

\* ensureDir(): the directories after it
ensureDir == IF existsSync(dirs, files, SnapshotsDir) THEN dirs
             ELSE mkdirSync(dirs, SnapshotsDir)

\* mutant of SnapshotDoc: the observations are not stored
SnapshotDoc_noObs(name, sessionState, observations, description) ==
  IF description = <<>>
  THEN [version |-> 1, name |-> name, createdAt |-> Ts(now),
        sessionState |-> sessionState, observations |-> <<>>]
  ELSE [version |-> 1, name |-> name, createdAt |-> Ts(now),
        description |-> description[1],
        sessionState |-> sessionState, observations |-> <<>>]

SnapshotDoc(name, sessionState, observations, description) ==
  IF description = <<>>
  THEN [version |-> 1, name |-> name, createdAt |-> Ts(now),
        sessionState |-> sessionState, observations |-> observations]
  ELSE [version |-> 1, name |-> name, createdAt |-> Ts(now),
        description |-> description[1],
        sessionState |-> sessionState, observations |-> observations]

save(name, sessionState, observations, description) ==
  LET ds == ensureDir
      snapshot == SnapshotDoc(name, sessionState, observations, description)
  IN IF ~sanitizeName(name)
     THEN Effect(Ret("save", name, InvalidName, <<>>), ds, files, {SnapshotsDir})
     ELSE IF Parent(getPath(name)) \notin ds
     THEN Effect(Ret("save", name, "ENOENT", <<>>), ds, files,
                 {SnapshotsDir, getPath(name)})
     ELSE Effect(Ret("save", name, "", <<>>), ds,
                 WriteFile(files, getPath(name), MapDoc(snapshot)),
                 {SnapshotsDir, getPath(name)})

restore(name) ==
  LET filepath == getPath(name)
      Fail(e) == Effect(Ret("restore", name, e, <<>>), dirs, files, {filepath})
  IN IF ~sanitizeName(name)
     THEN Effect(Ret("restore", name, InvalidName, <<>>), dirs, files, {})
     ELSE IF ~existsSync(dirs, files, filepath) THEN Fail("not found")
     ELSE IF filepath \notin DOMAIN files THEN Fail("failed to read")
     ELSE LET c == files[filepath] IN
          IF c.kind = "garbage" THEN Fail("failed to read")
          ELSE IF c.kind = "null" THEN Fail("TypeError")
          ELSE IF "sessionState" \notin DOMAIN c.doc
                  \/ "observations" \notin DOMAIN c.doc
               THEN Fail("corrupted or invalid")
          ELSE Effect(Ret("restore", name, "",
                          <<[sessionState |-> c.doc.sessionState,
                             observations |-> c.doc.observations]>>),
                      dirs, files, {filepath})

get(name) ==
  LET filepath == getPath(name)
      Give(v) == Effect(Ret("get", name, "", v), dirs, files, {filepath})
  IN IF ~sanitizeName(name)
     THEN Effect(Ret("get", name, InvalidName, <<>>), dirs, files, {})
     ELSE IF ~existsSync(dirs, files, filepath) THEN Give(<<>>)
     ELSE IF filepath \notin DOMAIN files THEN Give(<<>>)
     ELSE IF files[filepath].kind = "garbage" THEN Give(<<>>)
     ELSE Give(<<files[filepath]>>)

\* mutant of delete: unlinks and reports success without the existence check
delete_noCheck(name) ==
  LET filepath == getPath(name) IN
  IF ~sanitizeName(name)
  THEN Effect(Ret("delete", name, InvalidName, <<>>), dirs, files, {})
  ELSE Effect(Ret("delete", name, "", <<TRUE>>), dirs,
              RemoveFile(files, filepath), {filepath})

delete(name) ==
  LET filepath == getPath(name) IN
  IF ~sanitizeName(name)
  THEN Effect(Ret("delete", name, InvalidName, <<>>), dirs, files, {})
  ELSE IF ~existsSync(dirs, files, filepath)
  THEN Effect(Ret("delete", name, "", <<FALSE>>), dirs, files, {filepath})
  ELSE IF filepath \notin DOMAIN files
  THEN Effect(Ret("delete", name, "EISDIR", <<>>), dirs, files, {filepath})
  ELSE Effect(Ret("delete", name, "", <<TRUE>>), dirs,
              RemoveFile(files, filepath), {filepath})

\* mutant of exists: looks for the snapshots directory, not for the file
exists_directory(name) ==
  IF ~sanitizeName(name)
  THEN Effect(Ret("exists", name, InvalidName, <<>>), dirs, files, {})
  ELSE Effect(Ret("exists", name, "",
                  <<existsSync(dirs, files, SnapshotsDir)>>),
              dirs, files, {SnapshotsDir})

\* mutant of exists: creates the snapshots directory before looking
exists_ensureDir(name) ==
  IF ~sanitizeName(name)
  THEN Effect(Ret("exists", name, InvalidName, <<>>), dirs, files, {})
  ELSE Effect(Ret("exists", name, "",
                  <<existsSync(dirs, files, getPath(name))>>),
              ensureDir, files, {SnapshotsDir, getPath(name)})

exists(name) ==
  IF ~sanitizeName(name)
  THEN Effect(Ret("exists", name, InvalidName, <<>>), dirs, files, {})
  ELSE Effect(Ret("exists", name, "",
                  <<existsSync(dirs, files, getPath(name))>>),
              dirs, files, {getPath(name)})

\* new Date(createdAt).getTime() || 0
ListTime(e) == IF e.createdAt.ok THEN e.createdAt.ms ELSE 0

\* Array.prototype.sort with (a, b) => timeB - timeA: stable, newest first
\* mutant of InsertDesc: the comparator is timeA - timeB (oldest first)
RECURSIVE InsertDesc_asc(_, _)
InsertDesc_asc(s, e) ==
  IF s = <<>> THEN <<e>>
  ELSE IF ListTime(Head(s)) <= ListTime(e)
       THEN <<Head(s)>> \o InsertDesc_asc(Tail(s), e)
       ELSE <<e>> \o s

RECURSIVE InsertDesc(_, _)
InsertDesc(s, e) ==
  IF s = <<>> THEN <<e>>
  ELSE IF ListTime(Head(s)) >= ListTime(e)
       THEN <<Head(s)>> \o InsertDesc(Tail(s), e)
       ELSE <<e>> \o s

RECURSIVE SortDesc(_)
SortDesc(s) ==
  IF s = <<>> THEN <<>>
  ELSE InsertDesc(SortDesc(SubSeq(s, 1, Len(s) - 1)), s[Len(s)])

endsWithYaml(f) == Len(f) >= 1 /\ f[Len(f)] = ".yaml"

\* the entries of the snapshots directory, as readdirSync may order them
DirEntries == {p[Len(p)] : p \in {q \in dirs \cup DOMAIN files :
                                    Len(q) >= 1 /\ Parent(q) = SnapshotsDir}}

Perms(S) == {f \in [1..Cardinality(S) -> S] :
               \A i, j \in 1..Cardinality(S) : f[i] = f[j] => i = j}

\* the callback of files.map(): <<>> is null, <<e>> is the entry
listEntry(f) ==
  LET p == Append(SnapshotsDir, f) IN
  IF p \notin DOMAIN files THEN <<>>
  ELSE LET c == files[p] IN
       IF c.kind # "map" THEN <<>>
       ELSE IF "createdAt" \notin DOMAIN c.doc THEN <<>>
       ELSE LET skillCount ==
                  IF "sessionState" \in DOMAIN c.doc
                     /\ "history" \in DOMAIN c.doc.sessionState
                  THEN Len(c.doc.sessionState.history) ELSE 0
                nm == IF "name" \in DOMAIN c.doc THEN c.doc.name
                      ELSE SubSeq(f, 1, Len(f) - 1)
            IN IF "description" \in DOMAIN c.doc
               THEN <<[name |-> nm, createdAt |-> c.doc.createdAt,
                       description |-> c.doc.description,
                       skillCount |-> skillCount]>>
               ELSE <<[name |-> nm, createdAt |-> c.doc.createdAt,
                       skillCount |-> skillCount]>>

RECURSIVE mapEntries(_)
mapEntries(fs) ==
  IF fs = <<>> THEN <<>> ELSE listEntry(Head(fs)) \o mapEntries(Tail(fs))

\* mutant of list: the snapshots directory is created first, as save does
list_ensureDir(order) ==
  IF ~existsSync(dirs, files, SnapshotsDir)
  THEN Effect(Ret("list", <<>>, "", <<<<>>>>), ensureDir, files, {SnapshotsDir})
  ELSE LET fs == SelectSeq(order, endsWithYaml) IN
       Effect(Ret("list", <<>>, "", <<SortDesc(mapEntries(fs))>>), dirs, files,
              {SnapshotsDir} \cup {Append(SnapshotsDir, f) : f \in Range(fs)})

list(order) ==
  IF ~existsSync(dirs, files, SnapshotsDir)
  THEN Effect(Ret("list", <<>>, "", <<<<>>>>), dirs, files, {SnapshotsDir})
  ELSE LET fs == SelectSeq(order, endsWithYaml) IN
       Effect(Ret("list", <<>>, "", <<SortDesc(mapEntries(fs))>>), dirs, files,
              {SnapshotsDir} \cup {Append(SnapshotsDir, f) : f \in Range(fs)})

SnapNames ==
  { <<>>, <<"a">>, <<"a", "-", "b", "_", "2">>,
    <<".", ".", "/", "e", "t", "c">>, <<"a", " ", "b">>, <<"a", ".", "b">>,
    <<"a", "/", "b">> }

SaveInputs ==
  { [sessionState |-> SessionOf(<<>>), observations |-> <<>>, description |-> <<>>],
    [sessionState |-> SessionOf(<<HistA>>), observations |-> <<ObsA>>,
     description |-> << <<"d">> >>],
    [sessionState |-> SessionOf(<<HistA, HistB>>), observations |-> <<ObsA>>,
     description |-> <<>>] }

\* documents another program may leave in the snapshots directory
ExternalDocs ==
  LET NullDoc == [kind |-> "null"]
  IN
  { Garbage, NullDoc,
    MapDoc([version |-> 1, name |-> <<"b">>, createdAt |-> Ts(1),
            observations |-> <<>>]),
    MapDoc([version |-> 1, name |-> <<"b">>, createdAt |-> Ts(1),
            sessionState |-> SessionOf(<<HistA>>)]),
    MapDoc([version |-> 1, name |-> <<"b">>,
            sessionState |-> SessionOf(<<HistA>>), observations |-> <<>>]),
    MapDoc([version |-> 1, createdAt |-> BadTs,
            sessionState |-> SessionOf(<<HistA>>), observations |-> <<>>]),
    MapDoc([version |-> 1, name |-> <<"b">>, createdAt |-> Ts(2),
            sessionState |-> [version |-> 1], observations |-> <<ObsA>>]) }

SnapApply(eff) ==
  /\ snapPre' = <<dirs, files>>
  /\ dirs' = eff.dirs
  /\ files' = eff.files
  /\ snapRet' = eff.ret
  /\ snapTouched' = eff.touched

Forget(f, n) == [m \in DOMAIN f \ {n} |-> f[m]]

SnapSave ==
  /\ \E name \in SnapNames, a \in SaveInputs :
       LET eff == save(name, a.sessionState, a.observations, a.description) IN
       /\ SnapApply(eff)
       /\ snapSaved' =
            IF eff.ret.error = ""
            THEN [m \in DOMAIN snapSaved \cup {name} |->
                    IF m = name
                    THEN [sessionState |-> a.sessionState,
                          observations |-> a.observations]
                    ELSE snapSaved[m]]
            ELSE snapSaved
  /\ UNCHANGED <<now, actVars, tlVars, callVars>>

SnapRestore ==
  /\ \E name \in SnapNames : SnapApply(restore(name))
  /\ UNCHANGED <<now, actVars, snapSaved, tlVars, callVars>>

SnapGet ==
  /\ \E name \in SnapNames : SnapApply(get(name))
  /\ UNCHANGED <<now, actVars, snapSaved, tlVars, callVars>>

SnapDelete ==
  /\ \E name \in SnapNames :
       /\ SnapApply(delete(name))
       /\ snapSaved' = Forget(snapSaved, name)
  /\ UNCHANGED <<now, actVars, tlVars, callVars>>

SnapExists ==
  /\ \E name \in SnapNames : SnapApply(exists(name))
  /\ UNCHANGED <<now, actVars, snapSaved, tlVars, callVars>>

SnapList ==
  /\ \E order \in Perms(DirEntries) : SnapApply(list(order))
  /\ UNCHANGED <<now, actVars, snapSaved, tlVars, callVars>>

\* another program writes a document into the snapshots directory
SnapExternalWrite ==
  /\ \E name \in {n \in SnapNames : sanitizeName(n)}, c \in ExternalDocs :
       /\ snapPre' = <<dirs, files>>
       /\ dirs' = mkdirSync(dirs, SnapshotsDir)
       /\ files' = WriteFile(files, Append(SnapshotsDir, name \o <<".yaml">>), c)
       /\ snapRet' = Ret("external", name, "", <<>>)
       /\ snapTouched' = {}
       /\ snapSaved' = Forget(snapSaved, name)
  /\ UNCHANGED <<now, actVars, tlVars, callVars>>

InitSnapshot ==
  /\ now = 0
  /\ dirs = {ProjectPath}
  /\ files = <<>>
  /\ actData = [i \in Instances |-> <<>>]
  /\ actL0 = <<>>
  /\ actRecorded = <<>>
  /\ IdleSnapshot
  /\ IdleCalls
  /\ IdleTimeline

NextSnapshot ==
  \/ SnapSave \/ SnapRestore \/ SnapGet \/ SnapDelete \/ SnapExists
  \/ SnapList \/ SnapExternalWrite \/ Tick

SpecSnapshot == InitSnapshot /\ [][NextSnapshot]_vars

\* the store when only this SnapshotManager writes to it
NextStore ==
  \/ SnapSave \/ SnapDelete \/ SnapList \/ SnapExists \/ SnapRestore \/ Tick

SpecStore == InitSnapshot /\ [][NextStore]_vars

(***************************************************************************)
(* SnapshotManager.list over stores of up to three snapshot files, each    *)
(* written by save at some time or left by another program.                *)
(***************************************************************************)
\* the document save(name, ...) wrote when the clock read t
SavedDoc(name, t, a) ==
  MapDoc(IF a.description = <<>>
         THEN [version |-> 1, name |-> name, createdAt |-> Ts(t),
               sessionState |-> a.sessionState, observations |-> a.observations]
         ELSE [version |-> 1, name |-> name, createdAt |-> Ts(t),
               description |-> a.description[1],
               sessionState |-> a.sessionState, observations |-> a.observations])

InitSnapList ==
  LET ListNames == { <<"a">>, <<"a", "-", "b", "_", "2">>, <<"Z", "9">> }
      StoredDocs(name) ==
        {SavedDoc(name, t, a) : t \in 0..(MaxClock + 1), a \in SaveInputs}
          \cup ExternalDocs
  IN
  /\ now = 0
  /\ actData = [i \in Instances |-> <<>>]
  /\ actL0 = <<>>
  /\ actRecorded = <<>>
  /\ IdleSnapshot
  /\ IdleCalls
  /\ IdleTimeline
  /\ \/ /\ dirs = {ProjectPath}
        /\ files = <<>>
     \/ /\ dirs = mkdirSync({}, SnapshotsDir)
        /\ \E present \in SUBSET ListNames :
             files \in [{getPath(n) : n \in present} ->
                          UNION {StoredDocs(n) : n \in present}]
        /\ \A n \in ListNames :
             getPath(n) \in DOMAIN files => files[getPath(n)] \in StoredDocs(n)

NextSnapList == SnapList

SpecSnapList == InitSnapList /\ [][NextSnapList]_vars

(***************************************************************************)
(* SessionTimeline.build.  The session document, the git log and the       *)
(* observation store are read through collaborators (SessionManager.get,   *)
(* getGitCommits, ObservationStore.readAll); tlSrc holds what they return. *)
(***************************************************************************)
DefaultLimit == 50

Min(a, b) == IF a < b THEN a ELSE b
Max(a, b) == IF a > b THEN a ELSE b

\* Array.prototype.slice(start)
Slice(s, start) ==
  LET k == IF start < 0 THEN Max(Len(s) + start, 0) ELSE Min(start, Len(s))
  IN SubSeq(s, k + 1, Len(s))

\* String.prototype.includes
includes(str, sub) ==
  \E k \in 0..(Len(str) - Len(sub)) : SubSeq(str, k + 1, k + Len(sub)) = sub

startsWith(str, pre) == Len(pre) <= Len(str) /\ SubSeq(str, 1, Len(pre)) = pre

\* Array.prototype.join(', ')
RECURSIVE joinComma(_)
joinComma(strs) ==
  IF strs = <<>> THEN <<>>
  ELSE IF Len(strs) = 1 THEN strs[1]
  ELSE strs[1] \o <<",", " ">> \o joinComma(Tail(strs))

\* ActivityLog.getByCommit on the loaded document: <<>> is undefined
getByCommit(data, sha) ==
  IF Len(sha) < 4 THEN <<>>
  ELSE LET hits == SelectSeq(data.activities,
                     LAMBDA a : a.commitSha = sha \/ startsWith(a.commitSha, sha))
       IN IF hits = <<>> THEN <<>> ELSE <<hits[1]>>

SkillStartEvent(exec) ==
  [timestamp |-> exec.startedAt, type |-> "skill_start", source |-> exec.skillName,
   summary |-> <<exec.skillName, "started">>,
   details |-> [status |-> exec.status, totalSteps |-> exec.totalSteps]]

activeStatuses == {"in_progress", "completed", "failed"}

TaskEvents(exec) ==
  LET shown == SelectSeq(exec.tasks,
                 LAMBDA t : "startedAt" \in DOMAIN t /\ t.status \in activeStatuses)
  IN [k \in 1..Len(shown) |->
        [timestamp |-> IF "completedAt" \in DOMAIN shown[k]
                       THEN shown[k].completedAt ELSE shown[k].startedAt,
         type |-> "task_progress", source |-> exec.skillName,
         summary |-> <<shown[k].name, shown[k].status>>,
         details |-> IF "error" \in DOMAIN shown[k]
                     THEN [taskId |-> shown[k].id, error |-> shown[k].error]
                     ELSE [taskId |-> shown[k].id]]]

HistoryEvents(hist) ==
  [k \in 1..Len(hist) |->
     [timestamp |-> hist[k].completedAt, type |-> "skill_complete",
      source |-> hist[k].skillName,
      summary |-> <<hist[k].skillName, hist[k].status, hist[k].durationMs>>,
      details |-> [durationMs |-> hist[k].durationMs, commits |-> hist[k].commits,
                   filesModified |-> hist[k].filesModified]]]

GitEvent(data, commit) ==
  LET activity == getByCommit(data, commit.shortHash) IN
  [timestamp |-> commit.date, type |-> "git_commit",
   source |-> IF activity = <<>> THEN <<"g", "i", "t">>
              ELSE joinComma(activity[1].activeSkills),
   summary |-> <<commit.shortHash, commit.message, Len(commit.files)>>,
   details |-> IF activity = <<>>
               THEN [sha |-> commit.hash, author |-> commit.author]
               ELSE [sha |-> commit.hash, author |-> commit.author,
                     skills |-> activity[1].activeSkills]]

GitEvents(data, commits) ==
  [k \in 1..Len(commits) |-> GitEvent(data, commits[k])]

ObservationEvents(obs) ==
  [k \in 1..Len(obs) |->
     [timestamp |-> obs[k].timestamp, type |-> "observation",
      source |-> obs[k].agent,
      summary |-> <<obs[k].type, obs[k].content.action>>,
      details |-> IF "skills" \in DOMAIN obs[k].content
                  THEN [observationId |-> obs[k].id, action |-> obs[k].content.action,
                        skills |-> obs[k].content.skills]
                  ELSE [observationId |-> obs[k].id, action |-> obs[k].content.action]]]

DecisionEvents(decisions) ==
  [k \in 1..Len(decisions) |->
     [timestamp |-> decisions[k].madeAt, type |-> "decision",
      source |-> IF "skillName" \in DOMAIN decisions[k]
                 THEN decisions[k].skillName ELSE <<"u", "s", "e", "r">>,
      summary |-> <<decisions[k].key, decisions[k].value>>]]

SnapshotEvents(snaps) ==
  [k \in 1..Len(snaps) |->
     [timestamp |-> snaps[k].createdAt, type |-> "snapshot",
      source |-> <<"s", "n", "a", "p", "s", "h", "o", "t">>,
      summary |-> IF "description" \in DOMAIN snaps[k]
                  THEN <<snaps[k].name, snaps[k].description>>
                  ELSE <<snaps[k].name>>,
      details |-> [skillCount |-> snaps[k].skillCount]]]

\* lines 51-151: the events of the seven sources, in the order pushed
Collect(src, opts, data, order) ==
  LET state == src.session
      hasExec == state # <<>> /\ "currentExecution" \in DOMAIN state[1]
      includeGit == ~("includeGit" \in DOMAIN opts /\ opts.includeGit = FALSE)
  IN (IF hasExec
      THEN <<SkillStartEvent(state[1].currentExecution)>>
             \o TaskEvents(state[1].currentExecution)
      ELSE <<>>)
     \o (IF state # <<>> /\ "history" \in DOMAIN state[1]
         THEN HistoryEvents(state[1].history) ELSE <<>>)
     \o (IF includeGit /\ ~src.git.throws
         THEN GitEvents(data, src.git.commits) ELSE <<>>)
     \o (IF ~src.observations.throws
         THEN ObservationEvents(src.observations.list) ELSE <<>>)
     \o (IF state # <<>> /\ "decisions" \in DOMAIN state[1]
         THEN DecisionEvents(state[1].decisions) ELSE <<>>)
     \o SnapshotEvents(list(order).ret.value[1])

\* mutant of SinceKeeps: strictly after since
SinceKeeps_strict(e, sinceDate) == e.timestamp.ok /\ e.timestamp.ms > sinceDate.ms

\* new Date(e.timestamp) >= sinceDate
SinceKeeps(e, sinceDate) == e.timestamp.ok /\ e.timestamp.ms >= sinceDate.ms

SkillKeeps(e, skill) ==
  \/ includes(e.source, skill)
  \/ /\ "details" \in DOMAIN e
     /\ "skills" \in DOMAIN e.details
     /\ \E k \in DOMAIN e.details.skills : e.details.skills[k] = skill

\* lines 153-169
Filter(events, opts) ==
  LET f1 == IF "since" \in DOMAIN opts
            THEN SelectSeq(events, LAMBDA e : SinceKeeps(e, opts.since))
            ELSE events
      f2 == IF "types" \in DOMAIN opts /\ Len(opts.types) > 0
            THEN SelectSeq(f1, LAMBDA e : e.type \in Range(opts.types))
            ELSE f1
      f3 == IF "skillFilter" \in DOMAIN opts /\ opts.skillFilter # <<>>
            THEN SelectSeq(f2, LAMBDA e : SkillKeeps(e, opts.skillFilter))
            ELSE f2
  IN f3

\* the comparator of line 171 is positive: a.timestamp - b.timestamp > 0
\* (a NaN difference counts as 0)
After(a, b) == a.timestamp.ok /\ b.timestamp.ok /\ a.timestamp.ms > b.timestamp.ms

InsertAt(s, k, e) == SubSeq(s, 1, k) \o <<e>> \o SubSeq(s, k + 1, Len(s))

\* the places a stable sort may put e in the sorted prefix s: after a
\* neighbour that does not compare greater, before one that does
Places(s, e) ==
  {k \in 0..Len(s) :
     /\ k = 0 \/ ~After(s[k], e)
     /\ k = Len(s) \/ After(s[k + 1], e)}

\* Array.prototype.sort with the comparator of line 171: one result when
\* every timestamp parses; with unparseable timestamps the comparator is
\* inconsistent and the order is implementation-defined
RECURSIVE SortOutcomes(_)
SortOutcomes(s) ==
  IF s = <<>> THEN {<<>>}
  ELSE LET e == s[Len(s)]
           front == SortOutcomes(SubSeq(s, 1, Len(s) - 1))
       IN UNION {{InsertAt(r, k, e) : k \in Places(r, e)} : r \in front}

MaxLimit == 3

NoKey == [k \in {} |-> k]

ExecA ==
  LET TaskDone ==
        [id |-> <<"1">>, name |-> <<"t", "1">>, type |-> "auto", status |-> "completed",
         startedAt |-> Ts(0), completedAt |-> Ts(3)]
      TaskRunning ==
        [id |-> <<"2">>, name |-> <<"t", "2">>, type |-> "auto", status |-> "in_progress",
         startedAt |-> Ts(1)]
      TaskPending ==
        [id |-> <<"3">>, name |-> <<"t", "3">>, type |-> "auto", status |-> "pending"]
      TaskPaused ==
        [id |-> <<"4">>, name |-> <<"t", "4">>, type |-> "checkpoint:decision",
         status |-> "paused", startedAt |-> Ts(1)]
  IN
  [skillName |-> <<"a", "b">>, skillSource |-> <<"s">>, currentStep |-> 1,
   totalSteps |-> 4, status |-> "running", startedAt |-> Ts(0),
   tasks |-> <<TaskDone, TaskRunning, TaskPending, TaskPaused>>]

DecisionA == [key |-> <<"k">>, value |-> <<"v">>, madeAt |-> Ts(2), skillName |-> <<"b">>]
DecisionB == [key |-> <<"k">>, value |-> <<"w">>, madeAt |-> BadTs]

CommitA ==
  [hash |-> <<"a", "b", "c", "d", "1">>, shortHash |-> <<"a", "b", "c", "d">>,
   message |-> <<"m">>, date |-> Ts(2), author |-> <<"x">>, files |-> << <<"f">> >>]
CommitB ==
  [hash |-> <<"x", "y", "z", "9">>, shortHash |-> <<"x", "y", "z">>,
   message |-> <<"m">>, date |-> Ts(0), author |-> <<"x">>, files |-> <<>>]

TlGitLogs ==
  { [throws |-> TRUE, commits |-> <<>>],
    [throws |-> FALSE, commits |-> <<CommitA, CommitB>>] }

ObsB ==
  [id |-> <<"o", "2">>, timestamp |-> Ts(3), sessionId |-> <<"s", "1">>,
   agent |-> <<"b">>, type |-> "solution",
   content |-> [action |-> <<"x">>, skills |-> << <<"a">> >>], relevance |-> 50]

\* the project files SessionTimeline reads through ActivityLog and
\* SnapshotManager
TlDisks ==
  LET TlActivities ==
        << [commitSha |-> <<"a", "b", "c", "d", "2">>, committedAt |-> Ts(2),
            activeSkills |-> << <<"b">> >>, filesChanged |-> <<>>, message |-> <<"m">>],
           [commitSha |-> <<"a", "b", "c", "d", "1">>, committedAt |-> Ts(1),
            activeSkills |-> << <<"a">>, <<"b">> >>, filesChanged |-> <<>>,
            message |-> <<"m">>],
           [commitSha |-> <<"x", "y", "z", "9">>, committedAt |-> Ts(0),
            activeSkills |-> << <<"a">> >>, filesChanged |-> <<>>, message |-> <<"m">>] >>
  IN
  { [dirs |-> {ProjectPath}, files |-> <<>>],
    [dirs |-> mkdirSync({}, SkillkitDir),
     files |-> WriteFile(<<>>, ActivityFile,
                         MapDoc([version |-> 1, activities |-> TlActivities]))],
    \* a commit recorded while no skill was active comes first in the log
    [dirs |-> mkdirSync({}, SkillkitDir),
     files |-> WriteFile(<<>>, ActivityFile,
                         MapDoc([version |-> 1,
                                 activities |->
                                   <<[commitSha |-> <<"a", "b", "c", "d", "1">>,
                                      committedAt |-> Ts(2), activeSkills |-> <<>>,
                                      filesChanged |-> <<>>, message |-> <<"m">>]>>
                                   \o TlActivities]))],
    [dirs |-> mkdirSync({}, SnapshotsDir),
     files |-> WriteFile(WriteFile(<<>>, getPath(<<"a">>),
                                   SavedDoc(<<"a">>, 1,
                                     [sessionState |-> SessionOf(<<HistA>>),
                                      observations |-> <<>>,
                                      description |-> << <<"d">> >>])),
                         getPath(<<"Z", "9">>), Garbage)],
    [dirs |-> mkdirSync({}, SnapshotsDir),
     files |-> WriteFile(WriteFile(<<>>, ActivityFile,
                                   MapDoc([version |-> 1, activities |-> TlActivities])),
                         getPath(<<"a">>),
                         SavedDoc(<<"a">>, 1,
                                  [sessionState |-> SessionOf(<<HistA>>),
                                   observations |-> <<>>,
                                   description |-> <<>>]))] }

\* getByCommit loads the activity document unless every hash is too short
LoadsActivity(src, opts) ==
  /\ ~("includeGit" \in DOMAIN opts /\ opts.includeGit = FALSE)
  /\ ~src.git.throws
  /\ \E k \in DOMAIN src.git.commits : Len(src.git.commits[k].shortHash) >= 4

\* mutant of build: the since value is used without the isNaN test
build_noSinceCheck(opts, order, sorted) ==
  LET limit == IF "limit" \in DOMAIN opts THEN opts.limit ELSE DefaultLimit
      collected == Collect(tlSrc, opts, load("timeline"), order)
  IN [op |-> "build", opts |-> opts, collected |-> collected,
      projectPath |-> ProjectPath, sessionDate |-> now,
      events |-> Slice(sorted, 0 - limit),
      totalCount |-> Len(Filter(collected, opts))]

build(opts, order, sorted) ==
  LET limit == IF "limit" \in DOMAIN opts THEN opts.limit ELSE DefaultLimit
      data == load("timeline")
      collected == Collect(tlSrc, opts, data, order)
      filtered == Filter(collected, opts)
  IN IF "since" \in DOMAIN opts /\ ~opts.since.ok
     THEN [op |-> "build", opts |-> opts, collected |-> <<>>,
           projectPath |-> ProjectPath, sessionDate |-> now,
           events |-> <<>>, totalCount |-> 0]
     ELSE [op |-> "build", opts |-> opts, collected |-> collected,
           projectPath |-> ProjectPath, sessionDate |-> now,
           events |-> Slice(sorted, 0 - limit), totalCount |-> Len(filtered)]

TlBuild ==
  /\ \E order \in Perms(DirEntries) :
       LET invalidSince == "since" \in DOMAIN tlOpts /\ ~tlOpts.since.ok
           filtered == Filter(Collect(tlSrc, tlOpts, load("timeline"), order), tlOpts)
       IN /\ \E sorted \in (IF invalidSince THEN {<<>>} ELSE SortOutcomes(filtered)) :
               tlRet' = build(tlOpts, order, sorted)
          /\ actData' = IF ~invalidSince /\ LoadsActivity(tlSrc, tlOpts)
                        THEN [actData EXCEPT !["timeline"] = <<load("timeline")>>]
                        ELSE actData
          /\ dirs' = IF invalidSince THEN dirs ELSE list(order).dirs
          /\ files' = IF invalidSince THEN files ELSE list(order).files
  /\ UNCHANGED <<now, actL0, actRecorded, snapVars, tlSrc, tlOpts, callVars>>

InitTimeline ==
  LET TlOptions ==
        {a @@ b @@ c @@ d @@ e :
           a \in {NoKey, [since |-> Ts(1)], [since |-> BadTs]},
           b \in {NoKey, [types |-> <<>>], [types |-> <<"skill_complete", "git_commit">>],
                  [types |-> <<"decision">>]},
           c \in {NoKey} \cup {[limit |-> n] : n \in 0..MaxLimit},
           d \in {NoKey, [skillFilter |-> <<"a">>], [skillFilter |-> <<"b">>]},
           e \in {NoKey, [includeGit |-> FALSE]}}
      TlSessions ==
        LET \* history entry k of a long session, completed (60 - k) ms after the epoch
            HistN(k) ==
              [skillName |-> <<"a">>, skillSource |-> <<"s">>, completedAt |-> Ts(60 - k),
               durationMs |-> k, status |-> "completed", commits |-> <<>>,
               filesModified |-> <<>>]
        IN
        { <<>>,
          <<[SessionOf(<<HistB, HistA>>) EXCEPT !.decisions = <<DecisionA>>]>>,
          <<[version |-> 1, lastActivity |-> Ts(3), projectPath |-> ProjectPath,
             currentExecution |-> ExecA, history |-> <<HistA>>,
             decisions |-> <<DecisionA, DecisionB>>]>>,
          \* a failed task that was started and two tasks that never got a start time
          <<[version |-> 1, lastActivity |-> Ts(3), projectPath |-> ProjectPath,
             currentExecution |->
               [ExecA EXCEPT !.tasks =
                  <<[id |-> <<"5">>, name |-> <<"t", "5">>, type |-> "auto",
                     status |-> "failed", startedAt |-> Ts(1),
                     error |-> <<"e">>],
                    [id |-> <<"6">>, name |-> <<"t", "6">>, type |-> "auto",
                     status |-> "in_progress"],
                    [id |-> <<"7">>, name |-> <<"t", "7">>, type |-> "auto",
                     status |-> "completed", completedAt |-> Ts(2)]>>],
             history |-> <<>>]>>,
          <<SessionOf([k \in 1..(DefaultLimit + 1) |-> HistN(k)])>> }
      TlObservations ==
        { [throws |-> TRUE, list |-> <<>>],
          [throws |-> FALSE, list |-> <<ObsB, ObsA>>] }
  IN
  /\ now = 0
  /\ actData = [i \in Instances |-> <<>>]
  /\ actL0 = <<>>
  /\ actRecorded = <<>>
  /\ IdleSnapshot
  /\ IdleCalls
  /\ \E disk \in TlDisks : dirs = disk.dirs /\ files = disk.files
  /\ tlSrc \in [session : TlSessions, git : TlGitLogs, observations : TlObservations]
  /\ tlOpts \in TlOptions
  /\ tlRet = NoTlRet

NextTimeline == TlBuild

SpecTimeline == InitTimeline /\ [][NextTimeline]_vars

(***************************************************************************)
(* ActivityLog.getByCommit, called on logs of up to MaxLog activities.     *)
(***************************************************************************)
MaxLog == 3

ActGetByCommit ==
  /\ callArgs.op = "getByCommit"
  /\ callRet' = [op |-> "getByCommit", sha |-> callArgs.sha,
                 value |-> getByCommit(load("log"), callArgs.sha)]
  /\ actData' = IF Len(callArgs.sha) < 4 THEN actData
                ELSE [actData EXCEPT !["log"] = <<load("log")>>]
  /\ UNCHANGED <<now, dirs, files, actL0, actRecorded, snapVars, tlVars, callArgs>>

InitCommit ==
  LET StoredShas ==
        { <<"a", "b", "c">>, <<"a", "b", "c", "d">>, <<"a", "b", "c", "d", "1">>,
          <<"x", "y", "z", "9">> }
      QueryShas ==
        StoredShas \cup { <<>>, <<"a">>, <<"b", "c", "d">>, <<"q", "q", "q", "q">> }
      \* the k-th stored activity of a log: position k shows in committedAt
      ShaActivity(sha, k) ==
        [commitSha |-> sha, committedAt |-> Ts(0 - k), activeSkills |-> << <<"a">> >>,
         filesChanged |-> << <<"f">> >>, message |-> <<"m">>]
      ShaLogs ==
        UNION {{[k \in 1..n |-> ShaActivity(f[k], k)] : f \in [1..n -> StoredShas]} :
               n \in 0..MaxLog}
  IN
  /\ now = 0
  /\ actData = [i \in Instances |-> <<>>]
  /\ actRecorded = <<>>
  /\ \/ /\ dirs = {ProjectPath}
        /\ files = <<>>
        /\ actL0 = <<>>
     \/ \E log \in ShaLogs :
          /\ dirs = mkdirSync({}, SkillkitDir)
          /\ actL0 = log
          /\ files = WriteFile(<<>>, ActivityFile,
                               MapDoc([version |-> 1, activities |-> log]))
  /\ IdleSnapshot
  /\ IdleTimeline
  /\ callArgs \in [op : {"getByCommit"}, sha : QueryShas]
  /\ callRet = NoCall

NextCommit == ActGetByCommit

SpecCommit == InitCommit /\ [][NextCommit]_vars

(***************************************************************************)
(* SkillLineage.build.  skillMap is the sequence of its values in          *)
(* insertion order; fileSkillMap, fileCommitCount and fileLastModified are *)
(* one sequence of rows [path, skills, commitCount, lastModified] in the   *)
(* insertion order of fileSkillMap.  null is <<>>.                         *)
(***************************************************************************)
\* r.k ?? default
Field(r, k, default) == IF k \in DOMAIN r THEN r[k] ELSE default

\* ActivityLog.getRecent(limit) on the loaded document
getRecent(data, limit) == Take(data.activities, limit)

\* mutant of Dedup: the last occurrence of each value survives
RECURSIVE Dedup_keepLast(_)
Dedup_keepLast(s) ==
  IF s = <<>> THEN <<>>
  ELSE IF Head(s) \in Range(Tail(s)) THEN Dedup_keepLast(Tail(s))
       ELSE <<Head(s)>> \o Dedup_keepLast(Tail(s))

\* [...new Set(s)]
RECURSIVE Dedup(_)
Dedup(s) ==
  IF s = <<>> THEN <<>>
  ELSE LET front == Dedup(SubSeq(s, 1, Len(s) - 1))
       IN IF s[Len(s)] \in Range(front) THEN front ELSE Append(front, s[Len(s)])

\* Array.prototype.flatMap(f) followed by new Set: the set of all members
FlatSet(seqs) == UNION {Range(seqs[k]) : k \in DOMAIN seqs}

\* Array.prototype.slice(0, n)
SliceTo(s, n) ==
  IF n >= 0 THEN Take(s, n)
  ELSE SubSeq(s, 1, Max(0, Len(s) + n))

RECURSIVE Sum(_)
Sum(s) == IF s = <<>> THEN 0 ELSE Head(s) + Sum(Tail(s))


\* mutant of lineageStats: an empty string stands for "none"
lineageStats_noNull(skills, fileList, errorProneFiles) ==
  [totalSkillExecutions |-> Sum([k \in DOMAIN skills |-> skills[k].executions]),
   totalCommits |-> Cardinality(FlatSet([k \in DOMAIN skills |-> skills[k].commits])),
   totalFilesChanged |->
     Cardinality(FlatSet([k \in DOMAIN skills |-> skills[k].filesModified])),
   mostImpactfulSkill |-> IF Len(skills) > 0 THEN <<skills[1].skillName>>
                          ELSE << <<>> >>,
   mostChangedFile |-> IF Len(fileList) > 0 THEN <<fileList[1].path>>
                       ELSE << <<>> >>,
   errorProneFiles |-> SliceTo(Dedup(errorProneFiles), 5)]

\* lines 321-340
lineageStats(skills, fileList, errorProneFiles) ==
  [totalSkillExecutions |-> Sum([k \in DOMAIN skills |-> skills[k].executions]),
   totalCommits |-> Cardinality(FlatSet([k \in DOMAIN skills |-> skills[k].commits])),
   totalFilesChanged |->
     Cardinality(FlatSet([k \in DOMAIN skills |-> skills[k].filesModified])),
   mostImpactfulSkill |-> IF Len(skills) > 0 THEN <<skills[1].skillName>> ELSE <<>>,
   mostChangedFile |-> IF Len(fileList) > 0 THEN <<fileList[1].path>> ELSE <<>>,
   errorProneFiles |-> SliceTo(Dedup(errorProneFiles), 5)]

\* SkillLineage.build: allFiles is the file list before the filters,
\* undeduped the entries before lines 288-291, rankedSkills and rankedFiles
\* the sorted lists before lines 316-319
lineageBuild(src, opts, data) ==
  LET \* the four loops of lines 148-286 and the dedup, before any filter
      aggregate ==
        LET \* new Date(a) < new Date(b): false when either side is an Invalid Date
            DateLess(a, b) == a.ok /\ b.ok /\ a.ms < b.ms
            newEntry(name, ts) ==
              [skillName |-> name, executions |-> 0, totalDurationMs |-> 0, commits |-> <<>>,
               filesModified |-> <<>>, observationIds |-> <<>>, firstSeen |-> ts,
               lastSeen |-> ts]
            \* skillMap.get(name) ?? { ... }
            getEntry(skills, name, ts) ==
              LET idx == {k \in DOMAIN skills : skills[k].skillName = name}
              IN IF idx = {} THEN newEntry(name, ts) ELSE skills[CHOOSE k \in idx : TRUE]
            \* skillMap.set(entry.skillName, entry)
            setEntry(skills, entry) ==
              IF \E k \in DOMAIN skills : skills[k].skillName = entry.skillName
              THEN [k \in DOMAIN skills |->
                      IF skills[k].skillName = entry.skillName THEN entry ELSE skills[k]]
              ELSE Append(skills, entry)
            \* one file touched by one skill: add the skill, add n commits, move
            \* lastModified forward
            touchFile(fl, f, skill, n, ts) ==
              IF \E k \in DOMAIN fl : fl[k].path = f
              THEN [k \in DOMAIN fl |->
                      IF fl[k].path = f
                      THEN [path |-> f,
                            skills |-> IF skill \in Range(fl[k].skills) THEN fl[k].skills
                                       ELSE Append(fl[k].skills, skill),
                            commitCount |-> fl[k].commitCount + n,
                            lastModified |-> IF DateLess(fl[k].lastModified, ts) THEN ts
                                             ELSE fl[k].lastModified]
                      ELSE fl[k]]
              ELSE Append(fl, [path |-> f, skills |-> <<skill>>, commitCount |-> n,
                               lastModified |-> ts])
            RECURSIVE touchFiles(_, _, _, _, _)
            touchFiles(fl, fs, skill, n, ts) ==
              IF fs = <<>> THEN fl
              ELSE touchFiles(touchFile(fl, Head(fs), skill, n, ts), Tail(fs), skill, n, ts)
            \* lines 148-187: one history record
            histStep(acc, hist, o) ==
              IF "since" \in DOMAIN o /\ DateLess(hist.completedAt, o.since) THEN acc
              ELSE LET commits == Field(hist, "commits", <<>>)
                       fm == Field(hist, "filesModified", <<>>)
                       e0 == getEntry(acc.skills, hist.skillName, hist.completedAt)
                       e1 == [e0 EXCEPT
                                !.executions = @ + 1,
                                !.totalDurationMs = @ + hist.durationMs,
                                !.commits = @ \o commits,
                                !.filesModified = @ \o fm,
                                !.firstSeen = IF DateLess(hist.completedAt, @)
                                              THEN hist.completedAt ELSE @,
                                !.lastSeen = IF DateLess(@, hist.completedAt)
                                             THEN hist.completedAt ELSE @]
                   IN [skills |-> setEntry(acc.skills, e1),
                       files |-> touchFiles(acc.files, fm, hist.skillName, Len(commits),
                                            hist.completedAt)]
            RECURSIVE histLoop(_, _, _)
            histLoop(acc, history, o) ==
              IF history = <<>> THEN acc
              ELSE histLoop(histStep(acc, Head(history), o), Tail(history), o)
            \* lines 206-222: one task of the current execution
            taskStep(st, task, exec) ==
              LET hasSha == "commitSha" \in DOMAIN task /\ task.commitSha # <<>>
                  fm == Field(task, "filesModified", <<>>)
              IN [entry |-> [st.entry EXCEPT
                               !.commits = IF hasSha THEN Append(@, task.commitSha) ELSE @,
                               !.filesModified = @ \o fm],
                  files |-> touchFiles(st.files, fm, exec.skillName,
                                       IF hasSha THEN 1 ELSE 0, exec.startedAt)]
            RECURSIVE taskLoop(_, _, _)
            taskLoop(st, tasks, exec) ==
              IF tasks = <<>> THEN st
              ELSE taskLoop(taskStep(st, Head(tasks), exec), Tail(tasks), exec)
            \* lines 189-232: the current execution
            execStep(acc, exec, o) ==
              IF "since" \in DOMAIN o
                 /\ ~(exec.startedAt.ok /\ o.since.ok /\ exec.startedAt.ms >= o.since.ms)
              THEN acc
              ELSE LET e0 == getEntry(acc.skills, exec.skillName, exec.startedAt)
                       e1 == [e0 EXCEPT !.executions = @ + 1,
                                        !.totalDurationMs = @ + (now - exec.startedAt.ms)]
                       st == taskLoop([entry |-> e1, files |-> acc.files], exec.tasks, exec)
                       e2 == [st.entry EXCEPT
                                !.firstSeen = IF DateLess(exec.startedAt, @)
                                              THEN exec.startedAt ELSE @,
                                !.lastSeen = Ts(now)]
                   IN [skills |-> setEntry(acc.skills, e2), files |-> st.files]
            \* lines 245-256: one file of one active skill of one activity
            actFileStep(st, f, skill, ts) ==
              [files |-> touchFile(st.files, f, skill, IF f \in st.counted THEN 0 ELSE 1, ts),
               counted |-> st.counted \cup {f}]
            RECURSIVE actFileLoop(_, _, _, _)
            actFileLoop(st, fs, skill, ts) ==
              IF fs = <<>> THEN st
              ELSE actFileLoop(actFileStep(st, Head(fs), skill, ts), Tail(fs), skill, ts)
            \* lines 240-257: one active skill of one activity
            actSkillStep(st, skill, activity) ==
              LET tracked == \E k \in DOMAIN st.skills : st.skills[k].skillName = skill
                  entry == getEntry(st.skills, skill, activity.committedAt)
                  fst == actFileLoop([files |-> st.files, counted |-> st.counted],
                                     activity.filesChanged, skill, activity.committedAt)
              IN [skills |-> IF tracked /\ activity.commitSha \notin Range(entry.commits)
                             THEN setEntry(st.skills,
                                           [entry EXCEPT !.commits = Append(@, activity.commitSha)])
                             ELSE st.skills,
                  files |-> fst.files,
                  counted |-> fst.counted]
            RECURSIVE actSkillLoop(_, _, _)
            actSkillLoop(st, skills, activity) ==
              IF skills = <<>> THEN st
              ELSE actSkillLoop(actSkillStep(st, Head(skills), activity), Tail(skills), activity)
            \* lines 237-258: one activity of getRecent(500)
            activityStep(acc, activity, o) ==
              IF "since" \in DOMAIN o /\ DateLess(activity.committedAt, o.since) THEN acc
              ELSE LET st == actSkillLoop([skills |-> acc.skills, files |-> acc.files,
                                           counted |-> {}],
                                          activity.activeSkills, activity)
                   IN [skills |-> st.skills, files |-> st.files]
            RECURSIVE activityLoop(_, _, _)
            activityLoop(acc, activities, o) ==
              IF activities = <<>> THEN acc
              ELSE activityLoop(activityStep(acc, Head(activities), o), Tail(activities), o)
            \* lines 269-278: the entries whose [firstSeen, lastSeen] holds the observation
            attribute(skills, obs) ==
              [k \in DOMAIN skills |->
                 IF /\ obs.timestamp.ok /\ skills[k].firstSeen.ok /\ skills[k].lastSeen.ok
                    /\ obs.timestamp.ms >= skills[k].firstSeen.ms
                    /\ obs.timestamp.ms <= skills[k].lastSeen.ms
                    /\ obs.id \notin Range(skills[k].observationIds)
                 THEN [skills[k] EXCEPT !.observationIds = Append(@, obs.id)]
                 ELSE skills[k]]
            \* lines 266-283: one observation
            obsStep(st, obs, o) ==
              IF "since" \in DOMAIN o /\ DateLess(obs.timestamp, o.since) THEN st
              ELSE [skills |-> attribute(st.skills, obs),
                    errorProneFiles |->
                      IF obs.type = "error" /\ "files" \in DOMAIN obs.content
                      THEN st.errorProneFiles \o obs.content.files
                      ELSE st.errorProneFiles]
            RECURSIVE obsLoop(_, _, _)
            obsLoop(st, observations, o) ==
              IF observations = <<>> THEN st
              ELSE obsLoop(obsStep(st, Head(observations), o), Tail(observations), o)
            \* lines 288-291
            dedupEntries(skills) ==
              [k \in DOMAIN skills |->
                 [skills[k] EXCEPT !.commits = Dedup(@), !.filesModified = Dedup(@)]]
            \* this.activityLog.getRecent(500)
            LineageRecent == 500
        IN
        LET state == src.session
            a0 == [skills |-> <<>>, files |-> <<>>]
            a1 == IF state # <<>>
                  THEN histLoop(a0, Field(state[1], "history", <<>>), opts) ELSE a0
            a2 == IF state # <<>> /\ "currentExecution" \in DOMAIN state[1]
                  THEN execStep(a1, state[1].currentExecution, opts) ELSE a1
            a3 == activityLoop(a2, getRecent(data, LineageRecent), opts)
            o0 == [skills |-> a3.skills, errorProneFiles |-> <<>>]
            o1 == IF src.observations.throws THEN o0
                  ELSE obsLoop(o0, src.observations.list, opts)
        IN [skills |-> dedupEntries(o1.skills), files |-> a3.files,
            errorProneFiles |-> o1.errorProneFiles, undeduped |-> o1.skills,
            seeded |-> a2]
  IN
  LET \* lines 301-305
      skillFilter(r, o) ==
        IF "skill" \in DOMAIN o /\ o.skill # <<>>
        THEN LET skills == SelectSeq(r.skills, LAMBDA s : s.skillName = o.skill)
                 skillFiles == FlatSet([k \in DOMAIN skills |-> skills[k].filesModified])
             IN [skills |-> skills,
                 files |-> SelectSeq(r.files, LAMBDA f : f.path \in skillFiles)]
        ELSE r
      \* lines 307-311
      fileFilter(r, o) ==
        IF "file" \in DOMAIN o /\ o.file # <<>>
        THEN LET kept == SelectSeq(r.files,
                           LAMBDA f : f.path = o.file \/ includes(f.path, o.file))
                 fileSkills == FlatSet([k \in DOMAIN kept |-> kept[k].skills])
             IN [skills |-> SelectSeq(r.skills, LAMBDA s : s.skillName \in fileSkills),
                 files |-> kept]
        ELSE r
      \* the comparator of line 313 is negative: a sorts before b
      skillBefore(a, b) == Len(b.filesModified) - Len(a.filesModified) < 0
      \* the comparator of line 314 is negative: a sorts before b
      fileBefore(a, b) ==
        IF Len(b.skills) - Len(a.skills) # 0
        THEN Len(b.skills) - Len(a.skills) < 0
        ELSE b.commitCount - a.commitCount < 0
      \* Array.prototype.sort is stable: e goes before the first x it sorts before
      RECURSIVE sortSkills(_)
      sortSkills(s) ==
        IF s = <<>> THEN <<>>
        ELSE LET front == sortSkills(SubSeq(s, 1, Len(s) - 1))
                 e == s[Len(s)]
                 later == {k \in DOMAIN front : skillBefore(e, front[k])}
                 at == IF later = {} THEN Len(front)
                       ELSE (CHOOSE k \in later : \A j \in later : k <= j) - 1
             IN InsertAt(front, at, e)
      RECURSIVE sortFiles(_)
      sortFiles(s) ==
        IF s = <<>> THEN <<>>
        ELSE LET front == sortFiles(SubSeq(s, 1, Len(s) - 1))
                 e == s[Len(s)]
                 later == {k \in DOMAIN front : fileBefore(e, front[k])}
                 at == IF later = {} THEN Len(front)
                       ELSE (CHOOSE k \in later : \A j \in later : k <= j) - 1
             IN InsertAt(front, at, e)
      \* lines 316-319: `if (options?.limit)` skips a limit of 0
      applyLimit(s, o) ==
        IF "limit" \in DOMAIN o /\ o.limit # 0 THEN SliceTo(s, o.limit) ELSE s
  IN
  LET agg == aggregate
      f == fileFilter(skillFilter([skills |-> agg.skills, files |-> agg.files], opts),
                      opts)
      skills == applyLimit(sortSkills(f.skills), opts)
      fileList == applyLimit(sortFiles(f.files), opts)
  IN [op |-> "lineage", opts |-> opts, projectPath |-> ProjectPath,
      skills |-> skills, files |-> fileList,
      stats |-> lineageStats(skills, fileList, agg.errorProneFiles),
      allFiles |-> agg.files, undeduped |-> agg.undeduped, seeded |-> agg.seeded,
      rankedSkills |-> sortSkills(f.skills), rankedFiles |-> sortFiles(f.files)]

MaxHist == 2


LnH1 ==
  [skillName |-> <<"a">>, skillSource |-> <<"s">>, completedAt |-> Ts(1),
   durationMs |-> 2, status |-> "completed",
   commits |-> << <<"c", "1">>, <<"c", "2">> >>,
   filesModified |-> << <<"f">>, <<"g">> >>]
LnH3 ==
  [skillName |-> <<"b">>, skillSource |-> <<"s">>, completedAt |-> Ts(2),
   durationMs |-> 3, status |-> "completed", commits |-> << <<"c", "3">> >>,
   filesModified |-> << <<"f">>, <<"f", "g">> >>]
LnExecA ==
  [skillName |-> <<"a">>, skillSource |-> <<"s">>, currentStep |-> 1,
   totalSteps |-> 3, status |-> "running", startedAt |-> Ts(1),
   tasks |-> << [id |-> <<"1">>, name |-> <<"t", "1">>, type |-> "auto",
                 status |-> "completed", startedAt |-> Ts(1), completedAt |-> Ts(2),
                 commitSha |-> <<"c", "1">>,
                 filesModified |-> << <<"g">>, <<"h">> >>],
                [id |-> <<"2">>, name |-> <<"t", "2">>, type |-> "auto",
                 status |-> "in_progress", startedAt |-> Ts(2),
                 filesModified |-> << <<"f">> >>],
                [id |-> <<"3">>, name |-> <<"t", "3">>, type |-> "auto",
                 status |-> "failed", commitSha |-> <<"c", "4">>] >>]
LnActivities ==
  << [commitSha |-> <<"c", "1">>, committedAt |-> Ts(2),
      activeSkills |-> << <<"a">>, <<"b">> >>,
      filesChanged |-> << <<"f">>, <<"h">> >>, message |-> <<"m">>],
     [commitSha |-> <<"c", "5">>, committedAt |-> Ts(0),
      activeSkills |-> << <<"a">> >>,
      filesChanged |-> << <<"g">>, <<"g">> >>, message |-> <<"m">>],
     [commitSha |-> <<"c", "6">>, committedAt |-> Ts(1),
      activeSkills |-> << <<"z">> >>,
      filesChanged |-> << <<"k">> >>, message |-> <<"m">>],
     [commitSha |-> <<"c", "7">>, committedAt |-> Ts(2),
      activeSkills |-> <<>>,
      filesChanged |-> << <<"f">> >>, message |-> <<"m">>] >>

\* one call of SkillLineage.build(opts)
LineageCall(opts) ==
  /\ callRet' = lineageBuild(tlSrc, opts, load("lineage"))
  /\ actData' = [actData EXCEPT !["lineage"] = <<load("lineage")>>]
  /\ UNCHANGED <<now, dirs, files, actL0, actRecorded, snapVars, tlVars, callArgs>>

LineageBuild == callArgs.op = "lineage" /\ LineageCall(callArgs.opts)

InitLineage ==
  LET LnSessions ==
        LET LnHistories ==
              LET LnH2 ==
                    [skillName |-> <<"a">>, skillSource |-> <<"s">>, completedAt |-> Ts(0),
                     durationMs |-> 1, status |-> "failed", commits |-> << <<"c", "1">> >>,
                     filesModified |-> << <<"f">>, <<"f">> >>]
                  LnH4 ==
                    [skillName |-> <<"b">>, skillSource |-> <<"s">>, completedAt |-> Ts(2),
                     durationMs |-> 1, status |-> "completed"]
              IN
              UNION {[1..n -> {LnH1, LnH2, LnH3, LnH4}] : n \in 0..MaxHist}
            LnExecC ==
              [skillName |-> <<"c">>, skillSource |-> <<"s">>, currentStep |-> 0,
               totalSteps |-> 0, status |-> "running", startedAt |-> Ts(2), tasks |-> <<>>]
        IN
        {<<>>} \cup
        { <<SessionOf(h)>> : h \in LnHistories } \cup
        { <<[version |-> 1, lastActivity |-> Ts(2), projectPath |-> ProjectPath,
             currentExecution |-> e, history |-> h, decisions |-> <<>>]>> :
            e \in {LnExecA, LnExecC}, h \in LnHistories }
      LnDisks ==
        { [dirs |-> {ProjectPath}, files |-> <<>>],
          [dirs |-> mkdirSync({}, SkillkitDir),
           files |-> WriteFile(<<>>, ActivityFile,
                               MapDoc([version |-> 1, activities |-> LnActivities]))] }
      LnObservations ==
        LET ObsE ==
              [id |-> <<"o", "3">>, timestamp |-> Ts(1), sessionId |-> <<"s", "1">>,
               agent |-> <<"c">>, type |-> "error",
               content |-> [action |-> <<"x">>, error |-> <<"e">>,
                            files |-> << <<"f">>, <<"g">>, <<"f">> >>],
               relevance |-> 70]
        IN
        { [throws |-> TRUE, list |-> <<>>],
          [throws |-> FALSE, list |-> <<ObsE, ObsB>>] }
      LnOptions ==
        {a @@ b @@ c @@ d :
           a \in {NoKey, [since |-> Ts(1)], [since |-> BadTs]},
           b \in {NoKey, [skill |-> <<"a">>], [skill |-> <<"z">>]},
           c \in {NoKey, [file |-> <<"f">>]},
           d \in {NoKey} \cup {[limit |-> n] : n \in 0..MaxLimit}}
  IN
  /\ now = 3
  /\ actData = [i \in Instances |-> <<>>]
  /\ actL0 = <<>>
  /\ actRecorded = <<>>
  /\ IdleSnapshot
  /\ \E disk \in LnDisks : dirs = disk.dirs /\ files = disk.files
  /\ tlSrc \in [session : LnSessions, git : {[throws |-> TRUE, commits |-> <<>>]},
                observations : LnObservations]
  /\ tlOpts = NoKey
  /\ tlRet = NoTlRet
  /\ callArgs \in [op : {"lineage"}, opts : LnOptions]
  /\ callRet = NoCall

NextLineage == LineageBuild

SpecLineage == InitLineage /\ [][NextLineage]_vars

(***************************************************************************)
(* SessionHandoff.generate.  A formatted duration is the record of its     *)
(* fields: [h, m] for "Hh Mm", [m] for "Mm", [s] for "Ss", [nan] for the   *)
(* "NaNs" of an unparseable timestamp.  A recommendation line is the        *)
(* record of its template and the values put into it.  undefined is <<>>,  *)
(* a defined value v is <<v>>.                                             *)
(***************************************************************************)
\* formatDuration(ms), lines 14-21
formatDuration(ms) ==
  LET MsPerSecond == 1000
      SecondsPerMinute == 60
      MinutesPerHour == 60
  IN
  LET seconds == ms \div MsPerSecond
      minutes == seconds \div SecondsPerMinute
      hours == minutes \div MinutesPerHour
  IN IF hours > 0 THEN [h |-> hours, m |-> minutes % MinutesPerHour]
     ELSE IF minutes > 0 THEN [m |-> minutes]
     ELSE [s |-> seconds]


\* formatDuration(new Date(b).getTime() - new Date(a).getTime())
durationBetween(a, b) ==
  IF a.ok /\ b.ok THEN formatDuration(b.ms - a.ms) ELSE [nan |-> TRUE]

\* a truthy optional string field
Truthy(r, k) == k \in DOMAIN r /\ r[k] # <<>>

\* task.startedAt && task.completedAt
hasBothTimes(task) == "startedAt" \in DOMAIN task /\ "completedAt" \in DOMAIN task

MapSeq(s, Op(_)) == [k \in DOMAIN s |-> Op(s[k])]

DayOf(ms) ==
  LET \* the UTC calendar day of an instant: toISOString().split('T')[0]
      MsPerDay == 86400000
  IN ms \div MsPerDay

\* commit.date.startsWith(today)
madeToday(commit) == commit.date.ok /\ DayOf(commit.date.ms) = DayOf(now)

gitCommits(src) ==
  LET \* getGitCommits(projectPath, { commits: 50 }) inside try/catch
      GitWindow == 50
  IN IF src.git.throws THEN <<>> ELSE Take(src.git.commits, GitWindow)

\* lines 74-126
buildAccomplished(tasks, history, includeGit, src) ==
  LET \* lines 81-95: the entry pushed for a completed task
      accomplishedTask(task) ==
        [name |-> task.name,
         duration |-> IF hasBothTimes(task)
                      THEN <<durationBetween(task.startedAt, task.completedAt)>>
                      ELSE <<>>,
         commitSha |-> IF "commitSha" \in DOMAIN task THEN <<task.commitSha>> ELSE <<>>]
      \* lines 97-105: the entry pushed for a completed history record
      accomplishedHist(hist) ==
        [name |-> hist.skillName,
         duration |-> IF "durationMs" \in DOMAIN hist
                      THEN <<formatDuration(hist.durationMs)>> ELSE <<>>,
         commitSha |-> IF "commits" \in DOMAIN hist /\ Len(hist.commits) > 0
                       THEN <<hist.commits[1]>> ELSE <<>>]
  IN
  [tasks |-> MapSeq(SelectSeq(tasks, LAMBDA t : t.status = "completed"),
                    accomplishedTask)
             \o MapSeq(SelectSeq(history, LAMBDA h : h.status = "completed"),
                       accomplishedHist),
   commits |-> IF includeGit
               THEN MapSeq(SelectSeq(gitCommits(src), madeToday),
                           LAMBDA c : [sha |-> c.shortHash, message |-> c.message,
                                       filesCount |-> Len(c.files)])
               ELSE <<>>]

\* mutant of pendingStatuses: paused tasks are forgotten
pendingStatuses_noPaused == {"pending", "in_progress"}

pendingStatuses == {"pending", "in_progress", "paused"}

\* lines 128-139
buildPending(tasks) ==
  [tasks |-> MapSeq(SelectSeq(tasks, LAMBDA t : t.status \in pendingStatuses),
                    LAMBDA t : [name |-> t.name]),
   commits |-> <<>>]

\* lines 141-164
\* mutant of changeTypeOf: every task file is tagged "modified"
changeTypeOf_modified(task) == "modified"

\* task.status === 'completed' ? 'modified' : 'in-progress'
changeTypeOf(task) ==
  IF task.status = "completed" THEN "modified" ELSE "in-progress"

buildKeyFiles(tasks, history) ==
  LET \* a.localeCompare(b) < 0
      RECURSIVE LocaleLess(_, _)
      LocaleLess(a, b) ==
        LET \* String.prototype.localeCompare on the lower-case letters the paths use
            Alphabet ==
              <<"a", "b", "c", "d", "e", "f", "g", "h", "i", "j", "k", "l", "m",
                "n", "o", "p", "q", "r", "s", "t", "u", "v", "w", "x", "y", "z">>
            CharRank(c) == CHOOSE k \in DOMAIN Alphabet : Alphabet[k] = c
        IN
        IF a = <<>> THEN b # <<>>
        ELSE IF b = <<>> THEN FALSE
        ELSE IF Head(a) = Head(b) THEN LocaleLess(Tail(a), Tail(b))
        ELSE CharRank(Head(a)) < CharRank(Head(b))
      \* fileMap.set(f, tag): an existing key keeps its place
      mapSet(fm, f, tag) ==
        IF \E k \in DOMAIN fm : fm[k].path = f
        THEN [k \in DOMAIN fm |-> IF fm[k].path = f THEN [path |-> f, changeType |-> tag]
                                  ELSE fm[k]]
        ELSE Append(fm, [path |-> f, changeType |-> tag])
      RECURSIVE mapSetAll(_, _, _)
      mapSetAll(fm, fs, tag) ==
        IF fs = <<>> THEN fm ELSE mapSetAll(mapSet(fm, Head(fs), tag), Tail(fs), tag)
      \* lines 147-151
      RECURSIVE keyFilesOfTasks(_, _)
      keyFilesOfTasks(fm, rest) ==
        IF rest = <<>> THEN fm
        ELSE keyFilesOfTasks(
               mapSetAll(fm, Field(Head(rest), "filesModified", <<>>),
                         changeTypeOf(Head(rest))),
               Tail(rest))
      \* lines 153-159
      RECURSIVE keyFilesOfHistory(_, _)
      keyFilesOfHistory(fm, rest) ==
        IF rest = <<>> THEN fm
        ELSE LET fs == Field(Head(rest), "filesModified", <<>>)
                 fresh == SelectSeq(fs, LAMBDA f : \A k \in DOMAIN fm : fm[k].path # f)
             IN keyFilesOfHistory(mapSetAll(fm, fresh, "modified"), Tail(rest))
      \* .sort((a, b) => a.path.localeCompare(b.path)) on distinct paths
      RECURSIVE sortByPath(_)
      sortByPath(s) ==
        IF s = <<>> THEN <<>>
        ELSE LET front == sortByPath(SubSeq(s, 1, Len(s) - 1))
                 e == s[Len(s)]
                 later == {k \in DOMAIN front : LocaleLess(e.path, front[k].path)}
                 at == IF later = {} THEN Len(front)
                       ELSE (CHOOSE k \in later : \A j \in later : k <= j) - 1
             IN InsertAt(front, at, e)
  IN
  sortByPath(keyFilesOfHistory(keyFilesOfTasks(<<>>, tasks), history))

\* mutant of relevanceBefore: ascending relevance
relevanceBefore_asc(a, b) == a.relevance - b.relevance < 0

\* the comparator of line 175 is negative: a sorts before b
relevanceBefore(a, b) == b.relevance - a.relevance < 0

NoObservations == [errors |-> <<>>, solutions |-> <<>>, patterns |-> <<>>, taken |-> <<>>]

\* lines 166-196
buildObservations(max, src) ==
  LET RECURSIVE sortByRelevance(_)
      sortByRelevance(s) ==
        IF s = <<>> THEN <<>>
        ELSE LET front == sortByRelevance(SubSeq(s, 1, Len(s) - 1))
                 e == s[Len(s)]
                 later == {k \in DOMAIN front : relevanceBefore(e, front[k])}
                 at == IF later = {} THEN Len(front)
                       ELSE (CHOOSE k \in later : \A j \in later : k <= j) - 1
             IN InsertAt(front, at, e)
      \* lines 178-190: taken lists the ids of the observations put in a bucket
      RECURSIVE takeObservations(_, _, _, _)
      takeObservations(result, sorted, cap, count) ==
        IF sorted = <<>> \/ count >= cap THEN result
        ELSE LET obs == Head(sorted)
                 c == obs.content
             IN IF obs.type = "error" /\ Truthy(c, "error")
                THEN takeObservations(
                       [result EXCEPT
                          !.errors = Append(@, [action |-> c.action, error |-> c.error]),
                          !.taken = Append(@, obs.id)],
                       Tail(sorted), cap, count + 1)
                ELSE IF obs.type = "solution" /\ Truthy(c, "solution")
                THEN takeObservations(
                       [result EXCEPT
                          !.solutions = Append(@, [action |-> c.action,
                                                   solution |-> c.solution]),
                          !.taken = Append(@, obs.id)],
                       Tail(sorted), cap, count + 1)
                ELSE IF obs.type = "pattern" /\ Truthy(c, "context")
                THEN takeObservations(
                       [result EXCEPT
                          !.patterns = Append(@, [action |-> c.action,
                                                  context |-> c.context]),
                          !.taken = Append(@, obs.id)],
                       Tail(sorted), cap, count + 1)
                ELSE takeObservations(result, Tail(sorted), cap, count)
  IN
  IF src.observations.throws THEN NoObservations
  ELSE takeObservations(NoObservations, sortByRelevance(src.observations.list), max, 0)

\* lines 198-241
buildRecommendations(pending, observations, includeGit, data) ==
  LET \* lines 220-234
      highChurn(d) ==
        LET \* fileCounts.set(f, (fileCounts.get(f) ?? 0) + 1)
            countFile(fc, f) ==
              IF \E k \in DOMAIN fc : fc[k].file = f
              THEN [k \in DOMAIN fc |->
                      IF fc[k].file = f THEN [file |-> f, count |-> fc[k].count + 1] ELSE fc[k]]
              ELSE Append(fc, [file |-> f, count |-> 1])
            RECURSIVE countFiles(_, _)
            countFiles(fc, fs) ==
              IF fs = <<>> THEN fc ELSE countFiles(countFile(fc, Head(fs)), Tail(fs))
            \* lines 222-226
            RECURSIVE fileCounts(_, _)
            fileCounts(fc, activities) ==
              IF activities = <<>> THEN fc
              ELSE fileCounts(countFiles(fc, Head(activities).filesChanged), Tail(activities))
            \* .sort((a, b) => b[1] - a[1])
            RECURSIVE sortByCount(_)
            sortByCount(s) ==
              IF s = <<>> THEN <<>>
              ELSE LET front == sortByCount(SubSeq(s, 1, Len(s) - 1))
                       e == s[Len(s)]
                       later == {k \in DOMAIN front : front[k].count - e.count < 0}
                       at == IF later = {} THEN Len(front)
                             ELSE (CHOOSE k \in later : \A j \in later : k <= j) - 1
                   IN InsertAt(front, at, e)
            ChurnWindow == 50
            ChurnMin == 3
            ChurnCap == 3
        IN
        LET counted == fileCounts(<<>>, getRecent(d, ChurnWindow))
            busy == SelectSeq(counted, LAMBDA c : c.count >= ChurnMin)
        IN MapSeq(SliceTo(sortByCount(busy), ChurnCap),
                  LAMBDA c : [line |-> "Review high-churn file", file |-> c.file,
                              count |-> c.count])
  IN
  LET unresolved ==
        SelectSeq(observations.errors,
                  LAMBDA e : \A k \in DOMAIN observations.solutions :
                               observations.solutions[k].action # e.action)
  IN (IF Len(pending.tasks) > 0
      THEN <<[line |-> "Complete pending tasks",
              names |-> joinComma(MapSeq(pending.tasks, LAMBDA t : t.name))]>>
      ELSE <<>>)
     \o (IF Len(unresolved) > 0
         THEN <<[line |-> "Resolve unresolved error(s)", count |-> Len(unresolved)]>>
         ELSE <<>>)
     \o (IF includeGit THEN highChurn(data) ELSE <<>>)

DefaultMaxObservations == 20

\* SessionHandoff.generate, lines 34-72
generate(src, opts, data) ==
  LET \* lines 40-52: the agent label
      handoffAgent(sr) ==
        LET state == sr.session
            fromConfig == IF ~sr.config.throws /\ sr.config.agent # <<>>
                             /\ sr.config.agent # <<"universal">>
                          THEN sr.config.agent ELSE <<"unknown">>
        IN IF fromConfig = <<"unknown">> /\ state # <<>>
              /\ "currentExecution" \in DOMAIN state[1]
              /\ Truthy(state[1].currentExecution, "skillSource")
           THEN state[1].currentExecution.skillSource
           ELSE fromConfig
  IN
  LET state == src.session
      includeGit == ~("includeGit" \in DOMAIN opts /\ opts.includeGit = FALSE)
      includeObservations ==
        ~("includeObservations" \in DOMAIN opts /\ opts.includeObservations = FALSE)
      maxObservations == Field(opts, "maxObservations", DefaultMaxObservations)
      tasks == IF state # <<>> /\ "currentExecution" \in DOMAIN state[1]
               THEN state[1].currentExecution.tasks ELSE <<>>
      history == IF state # <<>> THEN Field(state[1], "history", <<>>) ELSE <<>>
      pending == buildPending(tasks)
      observations == IF includeObservations
                      THEN buildObservations(maxObservations, src)
                      ELSE NoObservations
  IN [op |-> "handoff", opts |-> opts, generatedAt |-> Ts(now),
      fromAgent |-> handoffAgent(src), projectPath |-> ProjectPath,
      accomplished |-> buildAccomplished(tasks, history, includeGit, src),
      pending |-> pending,
      keyFiles |-> buildKeyFiles(tasks, history),
      observations |-> observations,
      recommendations |->
        buildRecommendations(pending, observations, includeGit, data)]

MaxTasks == 2
MaxObs == 3


\* an observation of the given kind; eligible ones hold the field their
\* bucket prints
HoObs(n, type, relevance, content) ==
  [id |-> <<"o", n>>, timestamp |-> Ts(1), sessionId |-> <<"s", "1">>,
   agent |-> <<"c">>, type |-> type, content |-> content, relevance |-> relevance]

HoFewObs ==
  << HoObs(1, "solution", 50, [action |-> <<"x">>, solution |-> <<"s">>]),
     HoObs(2, "error", 95, [action |-> <<"y">>]),
     HoObs(3, "error", 80, [action |-> <<"x">>, error |-> <<"e">>]),
     HoObs(4, "pattern", 90, [action |-> <<"z">>, context |-> <<"c">>]),
     HoObs(5, "error", 80, [action |-> <<"w">>, error |-> <<"e">>]),
     HoObs(6, "decision", 99, [action |-> <<"z">>, context |-> <<"c">>]) >>

HoActivities ==
  << [commitSha |-> <<"c", "1">>, committedAt |-> Ts(2),
      activeSkills |-> << <<"a">> >>,
      filesChanged |-> << <<"h">>, <<"f">> >>, message |-> <<"m">>],
     [commitSha |-> <<"c", "2">>, committedAt |-> Ts(1),
      activeSkills |-> << <<"a">> >>,
      filesChanged |-> << <<"f">> >>, message |-> <<"m">>],
     [commitSha |-> <<"c", "3">>, committedAt |-> Ts(1),
      activeSkills |-> <<>>,
      filesChanged |-> << <<"g">>, <<"f">>, <<"g">>, <<"g">>, <<"g">> >>,
      message |-> <<"m">>] >>

\* one call of SessionHandoff.generate(opts)
HandoffCall(opts) ==
  /\ callRet' = generate(tlSrc, opts, load("handoff"))
  /\ actData' = IF "includeGit" \in DOMAIN opts /\ opts.includeGit = FALSE
                THEN actData
                ELSE [actData EXCEPT !["handoff"] = <<load("handoff")>>]
  /\ UNCHANGED <<now, dirs, files, actL0, actRecorded, snapVars, tlVars, callArgs>>

HandoffGenerate == callArgs.op = "handoff" /\ HandoffCall(callArgs.opts)

InitHandoff ==
  LET HoSessions ==
        LET HoTaskLists ==
              LET HoTasks ==
                    { [id |-> <<"1">>, name |-> <<"t", "1">>, type |-> "auto", status |-> "completed",
                       startedAt |-> Ts(0), completedAt |-> Ts(180000),
                       commitSha |-> <<"c", "1">>, filesModified |-> << <<"f">> >>],
                      [id |-> <<"2">>, name |-> <<"t", "2">>, type |-> "auto", status |-> "completed",
                       filesModified |-> << <<"g">> >>],
                      [id |-> <<"3">>, name |-> <<"t", "3">>, type |-> "auto", status |-> "completed",
                       startedAt |-> Ts(0)],
                      [id |-> <<"4">>, name |-> <<"t", "4">>, type |-> "auto", status |-> "pending"],
                      [id |-> <<"5">>, name |-> <<"t", "5">>, type |-> "auto", status |-> "in_progress",
                       startedAt |-> Ts(0), filesModified |-> << <<"f">>, <<"a", "b">> >>],
                      [id |-> <<"6">>, name |-> <<"t", "6">>, type |-> "checkpoint:decision",
                       status |-> "paused", startedAt |-> Ts(1)],
                      [id |-> <<"7">>, name |-> <<"t", "7">>, type |-> "auto", status |-> "failed",
                       startedAt |-> Ts(0), completedAt |-> Ts(2)] }
              IN
                           UNION {[1..n -> HoTasks] : n \in 0..MaxTasks}
            HoHistories ==
              { <<>>, <<HistB, HistA>>,
                <<[LnH1 EXCEPT !.durationMs = 3720000], HistB, LnH3>> }
            HoExec(tasks) ==
              [skillName |-> <<"a">>, skillSource |-> <<"s">>, currentStep |-> 1,
               totalSteps |-> Len(tasks), status |-> "running", startedAt |-> Ts(0),
               tasks |-> tasks]
        IN
        {<<>>} \cup
        { <<SessionOf(h)>> : h \in HoHistories } \cup
        { <<[version |-> 1, lastActivity |-> Ts(2), projectPath |-> ProjectPath,
             currentExecution |-> HoExec(t), history |-> h, decisions |-> <<DecisionA>>]>> :
            t \in HoTaskLists, h \in HoHistories }
      HoObservations ==
        LET HoManyObs ==
              [k \in 1..(DefaultMaxObservations + 1) |->
                 HoObs(k, "error", k % 7, [action |-> <<"x">>, error |-> <<"e">>])]
        IN
        { [throws |-> TRUE, list |-> <<>>],
          [throws |-> FALSE, list |-> <<>>],
          [throws |-> FALSE, list |-> HoFewObs],
          [throws |-> FALSE, list |-> HoManyObs] }
      \* what surrounds the session: the git log, loadConfig() and the project files
      HoEnvs ==
        LET HoCommitOld ==
              [hash |-> <<"o", "l", "d", "1">>, shortHash |-> <<"o", "l", "d">>,
               message |-> <<"m">>, date |-> Ts(0 - 1), author |-> <<"x">>,
               files |-> << <<"f">>, <<"g">> >>]
        IN
        { [git |-> [throws |-> TRUE, commits |-> <<>>],
           config |-> [throws |-> TRUE, agent |-> <<>>],
           dirs |-> {ProjectPath}, files |-> <<>>],
          [git |-> [throws |-> FALSE, commits |-> <<>>],
           config |-> [throws |-> FALSE, agent |-> <<>>],
           dirs |-> {ProjectPath}, files |-> <<>>],
          [git |-> [throws |-> FALSE, commits |-> <<CommitA, HoCommitOld, CommitB>>],
           config |-> [throws |-> FALSE, agent |-> <<"universal">>],
           dirs |-> mkdirSync({}, SkillkitDir),
           files |-> WriteFile(<<>>, ActivityFile,
                               MapDoc([version |-> 1, activities |-> HoActivities]))],
          [git |-> [throws |-> FALSE, commits |-> <<HoCommitOld>>],
           config |-> [throws |-> FALSE, agent |-> <<"claude-code">>],
           dirs |-> mkdirSync({}, SkillkitDir),
           files |-> WriteFile(<<>>, ActivityFile,
                               MapDoc([version |-> 1, activities |-> LnActivities]))] }
      HoOptions ==
        {a @@ b @@ c :
           a \in {NoKey, [includeGit |-> FALSE]},
           b \in {NoKey, [includeObservations |-> FALSE]},
           c \in {NoKey} \cup {[maxObservations |-> n] : n \in 0..MaxObs}}
  IN
  /\ now = 3
  /\ actData = [i \in Instances |-> <<>>]
  /\ actL0 = <<>>
  /\ actRecorded = <<>>
  /\ IdleSnapshot
  /\ \E env \in HoEnvs, s \in HoSessions, o \in HoObservations :
       /\ dirs = env.dirs
       /\ files = env.files
       /\ tlSrc = [session |-> s, git |-> env.git, observations |-> o,
                   config |-> env.config]
  /\ tlOpts = NoKey
  /\ tlRet = NoTlRet
  /\ callArgs \in [op : {"handoff"}, opts : HoOptions]
  /\ callRet = NoCall

NextHandoff == HandoffGenerate

SpecHandoff == InitHandoff /\ [][NextHandoff]_vars

(***************************************************************************)
(* SessionExplainer.explain.  Its formatDuration (session-explainer.ts     *)
(* lines 7-20) is the function of handoff.ts lines 14-21.                  *)
(***************************************************************************)
\* SessionExplainer.explain, lines 31-140
explain(src, opts) ==
  LET NoCounts == [errors |-> 0, solutions |-> 0, patterns |-> 0, total |-> 0]
      \* lines 35-44: the explanation before the session is read
      emptyExplanation(o) ==
        [op |-> "explain", opts |-> o, date |-> DayOf(now), agent |-> <<"unknown">>,
         duration |-> <<>>, skillsUsed |-> <<>>, tasks |-> <<>>, filesModified |-> <<>>,
         decisions |-> <<>>, observationCounts |-> NoCounts, gitCommits |-> 0]
      \* lines 50-61
      explainAgent(sr, state) ==
        LET hasSource == "currentExecution" \in DOMAIN state
                           /\ Truthy(state.currentExecution, "skillSource")
        IN IF ~sr.config.throws /\ sr.config.agent # <<>>
              /\ sr.config.agent # <<"universal">>
           THEN sr.config.agent
           ELSE IF hasSource THEN state.currentExecution.skillSource
           ELSE <<"unknown">>
      \* lines 74-88: the entry of one task
      explainTask(task) ==
        IF hasBothTimes(task)
        THEN [name |-> task.name, status |-> task.status,
              duration |-> durationBetween(task.startedAt, task.completedAt)]
        ELSE [name |-> task.name, status |-> task.status]
      \* lines 95-104: skills of the history not listed yet
      RECURSIVE skillsOfHistory(_, _)
      skillsOfHistory(used, history) ==
        IF history = <<>> THEN used
        ELSE skillsOfHistory(
               IF \E k \in DOMAIN used : used[k].name = Head(history).skillName
               THEN used
               ELSE Append(used, [name |-> Head(history).skillName,
                                  status |-> Head(history).status]),
               Tail(history))
      \* push(...filesModified) over a list of tasks or history records
      RECURSIVE filesOf(_)
      filesOf(items) ==
        IF items = <<>> THEN <<>>
        ELSE Field(Head(items), "filesModified", <<>>) \o filesOf(Tail(items))
      \* lines 114-125
      countObservations(sr) ==
        IF sr.observations.throws THEN NoCounts
        ELSE LET obs == sr.observations.list
                 countByType(type) == Len(SelectSeq(obs, LAMBDA o : o.type = type))
             IN [total |-> Len(obs), errors |-> countByType("error"),
                 solutions |-> countByType("solution"),
                 patterns |-> countByType("pattern")]
  IN
  IF src.session = <<>> THEN emptyExplanation(opts)
  ELSE LET state == src.session[1]
           includeGit == ~("includeGit" \in DOMAIN opts /\ opts.includeGit = FALSE)
           hasExec == "currentExecution" \in DOMAIN state
           exec == state.currentExecution
           history == Field(state, "history", <<>>)
           decisions == Field(state, "decisions", <<>>)
       IN [emptyExplanation(opts) EXCEPT
             !.agent = explainAgent(src, state),
             !.duration = IF hasExec
                          THEN <<IF exec.startedAt.ok
                                 THEN formatDuration(now - exec.startedAt.ms)
                                 ELSE [nan |-> TRUE]>>
                          ELSE <<>>,
             !.skillsUsed =
               skillsOfHistory(IF hasExec
                               THEN <<[name |-> exec.skillName,
                                       status |-> exec.status]>>
                               ELSE <<>>,
                               history),
             !.tasks = IF hasExec THEN MapSeq(exec.tasks, explainTask) ELSE <<>>,
             !.filesModified =
               Dedup((IF hasExec THEN filesOf(exec.tasks) ELSE <<>>)
                     \o filesOf(history)),
             !.decisions = MapSeq(decisions,
                                  LAMBDA d : [key |-> d.key, value |-> d.value]),
             !.observationCounts = countObservations(src),
             !.gitCommits = IF includeGit
                            THEN Len(SelectSeq(gitCommits(src), madeToday))
                            ELSE 0]

\* one call of SessionExplainer.explain(opts)
ExplainCall(opts) ==
  /\ callRet' = explain(tlSrc, opts)
  /\ UNCHANGED <<now, dirs, files, actVars, snapVars, tlVars, callArgs>>

(***************************************************************************)
(* The four view builders called in any order on one project.              *)
(***************************************************************************)
VwLineage ==
  LET VwLnOptions ==
        { NoKey, [skill |-> <<"a">>], [since |-> Ts(1), limit |-> 1], [file |-> <<"f">>] }
  IN \E o \in VwLnOptions : LineageCall(o)

VwHandoff ==
  LET VwHoOptions ==
        { NoKey, [includeGit |-> FALSE],
          [includeObservations |-> FALSE, maxObservations |-> 1] }
  IN \E o \in VwHoOptions : HandoffCall(o)

VwExplain ==
  LET VwExOptions == { NoKey, [includeGit |-> FALSE] }
  IN \E o \in VwExOptions : ExplainCall(o)

InitViews ==
  LET VwProjects ==
        LET \* projects with no session document, no files and no observations
            VwEmptyProjects ==
              LET NoConfig == [throws |-> TRUE, agent |-> <<>>]
              IN
              { [dirs |-> {ProjectPath}, files |-> <<>>,
                 src |-> [session |-> <<>>, git |-> g, observations |-> o, config |-> c]] :
                  g \in TlGitLogs \cup {[throws |-> FALSE, commits |-> <<>>]},
                  o \in {[throws |-> TRUE, list |-> <<>>], [throws |-> FALSE, list |-> <<>>]},
                  c \in {NoConfig, [throws |-> FALSE, agent |-> <<"claude-code">>]} }
            VwSessions ==
              { <<[version |-> 1, lastActivity |-> Ts(3), projectPath |-> ProjectPath,
                   currentExecution |-> ExecA, history |-> <<HistA>>,
                   decisions |-> <<DecisionA, DecisionB>>]>>,
                <<[version |-> 1, lastActivity |-> Ts(2), projectPath |-> ProjectPath,
                   currentExecution |-> LnExecA, history |-> <<LnH3, LnH1, HistB>>,
                   decisions |-> <<>>]>>,
                <<SessionOf(<<HistB, HistA>>)>> }
            VwDisks ==
              TlDisks \cup
              { [dirs |-> mkdirSync({}, SkillkitDir),
                 files |-> WriteFile(<<>>, ActivityFile,
                                     MapDoc([version |-> 1, activities |-> HoActivities]))] }
        IN
        VwEmptyProjects \cup
        \* sessions under a configuration that names an agent, names none or
        \* cannot be loaded
        { [dirs |-> {ProjectPath}, files |-> <<>>,
           src |-> [session |-> s, git |-> [throws |-> TRUE, commits |-> <<>>],
                    observations |-> [throws |-> TRUE, list |-> <<>>], config |-> c]] :
            s \in VwSessions,
            c \in {[throws |-> TRUE, agent |-> <<>>], [throws |-> FALSE, agent |-> <<>>],
                   [throws |-> FALSE, agent |-> <<"claude-code">>]} } \cup
        { [dirs |-> d.dirs, files |-> d.files,
           src |-> [session |-> s, git |-> g, observations |-> o,
                    config |-> [throws |-> FALSE, agent |-> <<"universal">>]]] :
            d \in VwDisks, s \in VwSessions, g \in TlGitLogs,
            o \in {[throws |-> TRUE, list |-> <<>>], [throws |-> FALSE, list |-> HoFewObs]} }
      VwTlOptions ==
        { NoKey, [includeGit |-> FALSE], [since |-> BadTs],
          [limit |-> 1, skillFilter |-> <<"a">>] }
  IN
  /\ now = 3
  /\ actData = [i \in Instances |-> <<>>]
  /\ actL0 = <<>>
  /\ actRecorded = <<>>
  /\ IdleSnapshot
  /\ \E p \in VwProjects : dirs = p.dirs /\ files = p.files /\ tlSrc = p.src
  /\ tlOpts \in VwTlOptions
  /\ tlRet = NoTlRet
  /\ callArgs = NoCall
  /\ callRet = NoCall

NextViews == TlBuild \/ VwLineage \/ VwHandoff \/ VwExplain

SpecViews == InitViews /\ [][NextViews]_vars

(***************************************************************************)
(* Two processes, each with its own ActivityLog on the same project, that  *)
(* read the log and record into it in any order.  The entries of process   *)
(* "log" carry the message "m" and the skill a, those of process "peer"    *)
(* the message "p" and the skills b and a.                                 *)
(***************************************************************************)
\* one call of record() by one process
LogRecord ==
  /\ Len(actRecorded) < MaxRecords
  /\ \E i \in {"log", "peer"} :
       LET entry == [commitSha |-> <<"a", "b", "c", "d", "1">>,
                     message |-> IF i = "log" THEN <<"m">> ELSE <<"p">>,
                     activeSkills |-> IF i = "log" THEN << <<"a">> >>
                                      ELSE << <<"b">>, <<"a">> >>,
                     filesChanged |-> << <<"f">> >>]
       IN /\ record(i, entry)
          /\ actRecorded' = Append(actRecorded, NewActivity(entry))
  /\ UNCHANGED <<now, actL0, snapVars, tlVars, callVars>>

\* one call of getRecent, getBySkill, getByCommit or getMostUsedSkills by
\* one process; load() keeps what it read in this.data
LogRead ==
  LET \* lines 83-86
      getBySkill(data, skillName) ==
        SelectSeq(data.activities, LAMBDA a : skillName \in Range(a.activeSkills))
      \* counts.set(skill, (counts.get(skill) ?? 0) + 1)
      count(counts, skill) ==
        IF \E k \in DOMAIN counts : counts[k].skill = skill
        THEN [k \in DOMAIN counts |->
                IF counts[k].skill = skill
                THEN [skill |-> skill, count |-> counts[k].count + 1]
                ELSE counts[k]]
        ELSE Append(counts, [skill |-> skill, count |-> 1])
      RECURSIVE countAll(_, _)
      countAll(counts, skills) ==
        IF skills = <<>> THEN counts
        ELSE countAll(count(counts, Head(skills)), Tail(skills))
      \* .sort((a, b) => b.count - a.count), stable
      RECURSIVE sortByUse(_)
      sortByUse(s) ==
        IF s = <<>> THEN <<>>
        ELSE LET front == sortByUse(SubSeq(s, 1, Len(s) - 1))
                 e == s[Len(s)]
                 later == {k \in DOMAIN front : front[k].count - e.count < 0}
                 at == IF later = {} THEN Len(front)
                       ELSE (CHOOSE k \in later : \A j \in later : k <= j) - 1
             IN InsertAt(front, at, e)
      \* lines 93-106
      RECURSIVE flatSkills(_)
      flatSkills(acts) ==
        IF acts = <<>> THEN <<>>
        ELSE Head(acts).activeSkills \o flatSkills(Tail(acts))
      getMostUsedSkills(data) == sortByUse(countAll(<<>>, flatSkills(data.activities)))
  IN \E i \in {"log", "peer"},
        op \in {"getRecent", "getBySkill", "getByCommit", "getMostUsedSkills"} :
       /\ callRet' =
            [op |-> op, by |-> i,
             value |-> CASE op = "getRecent" -> getRecent(load(i), 20)
                         [] op = "getBySkill" -> getBySkill(load(i), <<"a">>)
                         [] op = "getByCommit" ->
                              getByCommit(load(i), <<"a", "b", "c", "d">>)
                         [] OTHER -> getMostUsedSkills(load(i))]
       /\ actData' = [actData EXCEPT ![i] = <<load(i)>>]
       /\ UNCHANGED <<now, dirs, files, actL0, actRecorded, snapVars, tlVars, callArgs>>

InitLog ==
  LET old == [commitSha |-> <<"o", "l", "d", "0">>, committedAt |-> Ts(0 - 1),
              activeSkills |-> << <<"a">> >>, filesChanged |-> << <<"f">> >>,
              message |-> <<"o">>]
      \* what the activity file holds: nothing, text yaml cannot parse, a
      \* null document, a document without activities, a log of one entry
      Contents == { <<>>, <<Garbage>>, <<[kind |-> "null"]>>,
                    <<MapDoc([version |-> 1])>>,
                    <<MapDoc([version |-> 1, activities |-> <<old>>])>> }
  IN
  /\ now = 0
  /\ actData = [i \in Instances |-> <<>>]
  /\ actRecorded = <<>>
  /\ \/ /\ dirs = {ProjectPath}
        /\ files = <<>>
     \/ \E c \in Contents :
          /\ dirs = mkdirSync({}, SkillkitDir)
          /\ files = IF c = <<>> THEN <<>> ELSE WriteFile(<<>>, ActivityFile, c[1])
  /\ actL0 = load("log").activities
  /\ IdleSnapshot
  /\ IdleTimeline
  /\ IdleCalls

NextLog == LogRecord \/ LogRead \/ Tick

SpecLog == InitLog /\ [][NextLog]_vars

(***************************************************************************)
(* The commands `session snapshot save` and `session snapshot restore`.    *)
(* tlSrc holds the session document behind SessionManager and the          *)
(* observations behind ObservationStore; callRet holds the outcome of the  *)
(* last command: its exit code, or the error it threw.                     *)
(***************************************************************************)
MaxStored == 2

\* SessionManager.getOrCreate(): the stored session, or a fresh one
getOrCreate(session) ==
  IF session # <<>> THEN session[1]
  ELSE [version |-> 1, lastActivity |-> Ts(now), projectPath |-> ProjectPath,
        history |-> <<>>, decisions |-> <<>>]

\* mutant of assignRestored: the current execution is left as it is
assignRestored_keepExecution(currentState, sessionState) ==
  LET keys == DOMAIN currentState
  IN [k \in keys |-> IF k \in {"history", "decisions"} /\ k \in DOMAIN sessionState
                     THEN sessionState[k] ELSE currentState[k]]

\* Object.assign(currentState, { currentExecution, history, decisions }); a
\* field the snapshot does not hold is assigned undefined
assignRestored(currentState, sessionState) ==
  LET assigned == {"currentExecution", "history", "decisions"}
      keys == (DOMAIN currentState \ assigned) \cup (assigned \cap DOMAIN sessionState)
  IN [k \in keys |-> IF k \in assigned THEN sessionState[k] ELSE currentState[k]]

CliNames == { <<"a">>, <<"b">>, <<"a", "/", "b">> }

CliSnapshotSave ==
  /\ \E name \in CliNames :
       LET state == tlSrc.session
           desc == IF name = <<"b">> THEN << <<"d">> >> ELSE <<>>
           \* raw.map(...) copies the seven fields of every observation
           observations ==
             IF tlSrc.observations.throws THEN <<>>
             ELSE [k \in 1..Len(tlSrc.observations.list) |->
                     LET o == tlSrc.observations.list[k]
                     IN [id |-> o.id, timestamp |-> o.timestamp,
                         sessionId |-> o.sessionId, agent |-> o.agent, type |-> o.type,
                         content |-> o.content, relevance |-> o.relevance]]
           eff == save(name, state[1], observations, desc)
       IN IF state = <<>>
          THEN /\ callRet' = [op |-> "snapshot save", name |-> name, code |-> 1,
                              error |-> ""]
               /\ UNCHANGED <<dirs, files, snapVars>>
          ELSE /\ SnapApply(eff)
               /\ callRet' = [op |-> "snapshot save", name |-> name,
                              code |-> IF eff.ret.error = "" THEN 0 ELSE 1,
                              error |-> eff.ret.error]
               /\ snapSaved' =
                    IF eff.ret.error = ""
                    THEN [m \in DOMAIN snapSaved \cup {name} |->
                            IF m = name
                            THEN [sessionState |-> state[1], observations |-> observations]
                            ELSE snapSaved[m]]
                    ELSE snapSaved
  /\ UNCHANGED <<now, actVars, tlVars, callArgs>>

CliSnapshotRestore ==
  /\ \E name \in CliNames :
       LET found == exists(name)
           eff == restore(name)
           Failed(e) ==
             /\ callRet' = [op |-> "snapshot restore", name |-> name, code |-> 1,
                            error |-> e]
             /\ UNCHANGED <<dirs, files, snapVars, tlVars>>
       IN IF found.ret.error # "" THEN Failed(found.ret.error)
          ELSE IF ~found.ret.value[1] THEN Failed("")
          ELSE IF eff.ret.error # "" THEN Failed(eff.ret.error)
          ELSE LET restored == eff.ret.value[1]
                   \* store.add(type, content, agent, relevance) for each observation
                   added ==
                     [k \in 1..Len(restored.observations) |->
                        [id |-> <<"r", Len(tlSrc.observations.list) + k>>,
                         timestamp |-> Ts(now), sessionId |-> <<"s", "1">>,
                         agent |-> restored.observations[k].agent,
                         type |-> restored.observations[k].type,
                         content |-> restored.observations[k].content,
                         relevance |-> restored.observations[k].relevance]]
                   \* an add that throws is caught: the store keeps what it has
                   stores ==
                     {tlSrc.observations} \cup
                     (IF ~tlSrc.observations.throws
                         /\ Len(tlSrc.observations.list) + Len(added) <= MaxStored
                      THEN {[tlSrc.observations EXCEPT !.list = @ \o added]}
                      ELSE {})
               IN /\ SnapApply(eff)
                  /\ snapSaved' = snapSaved
                  /\ \E store \in stores :
                       tlSrc' = [tlSrc EXCEPT
                                   !.session = <<assignRestored(getOrCreate(tlSrc.session),
                                                                restored.sessionState)>>,
                                   !.observations = store]
                  /\ callRet' = [op |-> "snapshot restore", name |-> name, code |-> 0,
                                 error |-> ""]
                  /\ UNCHANGED <<tlOpts, tlRet>>
  /\ UNCHANGED <<now, actVars, callArgs>>

\* the sessions other commands leave between a save and a restore
CliSessions ==
  { <<>>,
    <<SessionOf(<<HistA>>)>>,
    <<[version |-> 1, lastActivity |-> Ts(3), projectPath |-> ProjectPath,
       currentExecution |-> ExecA, history |-> <<HistB>>,
       decisions |-> <<DecisionA>>]>> }

CliSessionChange ==
  /\ \E s \in CliSessions : s # tlSrc.session /\ tlSrc' = [tlSrc EXCEPT !.session = s]
  /\ callRet' = [op |-> "session change"]
  /\ UNCHANGED <<now, dirs, files, actVars, snapVars, tlOpts, tlRet, callArgs>>

InitCli ==
  /\ now = 0
  /\ dirs = {ProjectPath}
  /\ files = <<>>
  /\ actData = [i \in Instances |-> <<>>]
  /\ actL0 = <<>>
  /\ actRecorded = <<>>
  /\ IdleSnapshot
  /\ IdleCalls
  /\ tlSrc \in [session : CliSessions,
                observations : { [throws |-> TRUE, list |-> <<>>],
                                 [throws |-> FALSE, list |-> <<>>],
                                 [throws |-> FALSE, list |-> <<ObsA>>] }]
  /\ tlOpts = NoKey
  /\ tlRet = NoTlRet

NextCli == CliSnapshotSave \/ CliSnapshotRestore \/ CliSessionChange

SpecCli == InitCli /\ [][NextCli]_vars

(***************************************************************************)
(* C1: after any sequence of record calls through one instance, starting   *)
(* from a stored log L0 of at most 500 entries, the stored activity list   *)
(* is the recorded entries newest first, followed by L0 in its original    *)
(* order, truncated to the first 500 entries.                              *)
(***************************************************************************)
StoredActivities == files[ActivityFile].doc.activities

C1_RecordPrependsAndCaps ==
  actRecorded # <<>> =>
    /\ ActivityFile \in DOMAIN files
    /\ files[ActivityFile].kind = "map"
    /\ Len(StoredActivities) <= 500
    /\ StoredActivities = Take(Reverse(actRecorded) \o actL0, 500)
    /\ StoredActivities[1] = actRecorded[Len(actRecorded)]

\* the log overflowed: 500 entries stored, originals evicted from the tail
C1_Witness ==
  /\ Len(actRecorded) >= 2
  /\ Len(actL0) = 499
  /\ ActivityFile \in DOMAIN files
  /\ Len(StoredActivities) = 500
  /\ StoredActivities[500] = actL0[500 - Len(actRecorded)]

(***************************************************************************)
(* C2: save, restore, get, delete and exists raise the invalid-name error  *)
(* exactly when the name is empty or holds a character outside             *)
(* [A-Za-z0-9_-]; no call uses a path outside the snapshots directory.     *)
(***************************************************************************)
C2_Allowed ==
  <<"a", "b", "c", "d", "e", "f", "g", "h", "i", "j", "k", "l", "m", "n", "o",
    "p", "q", "r", "s", "t", "u", "v", "w", "x", "y", "z", "A", "B", "C", "D",
    "E", "F", "G", "H", "I", "J", "K", "L", "M", "N", "O", "P", "Q", "R", "S",
    "T", "U", "V", "W", "X", "Y", "Z", "0", "1", "2", "3", "4", "5", "6", "7",
    "8", "9", "_", "-">>

C2_Unsafe(name) ==
  \/ Len(name) = 0
  \/ \E k \in 1..Len(name) : \A j \in 1..Len(C2_Allowed) : name[k] # C2_Allowed[j]

C2_Inside(p) ==
  /\ Len(p) >= 3
  /\ p[1] = <<"proj">> /\ p[2] = <<".skillkit">> /\ p[3] = <<"snapshots">>

NameOps == {"save", "restore", "get", "delete", "exists"}

C2_InvalidNameExactly ==
  /\ snapRet.op \in NameOps =>
       ((snapRet.error = "invalid name") <=> C2_Unsafe(snapRet.name))
  /\ \A p \in snapTouched : C2_Inside(p)

\* a path-traversal name was rejected by restore
C2_Witness ==
  /\ snapRet.op = "restore"
  /\ snapRet.name = <<".", ".", "/", "e", "t", "c">>
  /\ snapRet.error = "invalid name"
  /\ DOMAIN files # {}

(***************************************************************************)
(* C3: a call of save, restore, delete or exists with a name outside the   *)
(* safe-name pattern raises the invalid-name error before any file system  *)
(* access, leaving the disk as it was.                                     *)
(***************************************************************************)
C3_InvalidNameTouchesNothing ==
  (snapRet.op \in {"save", "restore", "delete", "exists"}
     /\ snapRet.error = "invalid name")
  => (snapTouched = {} /\ dirs = snapPre[1] /\ files = snapPre[2])

(***************************************************************************)
(* C4: restore(n) returns the sessionState and observations of the most    *)
(* recent save(n, ...) not followed by delete(n); a save under an existing *)
(* name succeeds and replaces that one snapshot.                           *)
(***************************************************************************)
C4_SnapshotRoundTrip ==
  /\ (snapRet.op = "restore" /\ snapRet.name \in DOMAIN snapSaved) =>
       /\ snapRet.error = ""
       /\ snapRet.value = <<snapSaved[snapRet.name]>>
  /\ (snapRet.op = "save" /\ ~C2_Unsafe(snapRet.name)) =>
       LET p == SnapshotsDir \o <<snapRet.name \o <<".yaml">>>> IN
       /\ snapRet.error = ""
       /\ DOMAIN files = DOMAIN snapPre[2] \cup {p}
       /\ \A q \in DOMAIN snapPre[2] \ {p} : files[q] = snapPre[2][q]

\* a snapshot saved after the clock advanced, holding history and
\* observations, was restored
C4_Witness ==
  /\ snapRet.op = "restore"
  /\ snapRet.name \in DOMAIN snapSaved
  /\ snapRet.error = ""
  /\ Len(snapRet.value[1].sessionState.history) = 2
  /\ snapRet.value[1].observations # <<>>
  /\ files[SnapshotsDir \o <<snapRet.name \o <<".yaml">>>>].doc.createdAt.ms >= 1

(***************************************************************************)
(* C5: restore, get, list and exists never modify the snapshot store,      *)
(* whether they succeed or fail.                                           *)
(***************************************************************************)
C5_ReadsLeaveStore ==
  snapRet.op \in {"restore", "get", "list", "exists"} =>
    (dirs = snapPre[1] /\ files = snapPre[2])

\* a successful restore, with the snapshot still on disk
C5_Witness ==
  /\ snapRet.op = "restore"
  /\ snapRet.error = ""
  /\ snapRet.value # <<>>
  /\ DOMAIN files # {}

(***************************************************************************)
(* C6: restore(name) with a valid name reports "not found" when no file    *)
(* exists, "failed to read" when the content cannot be parsed, "corrupted  *)
(* or invalid" for every parseable document lacking sessionState or        *)
(* observations, and returns a pair only when both are present.            *)
(***************************************************************************)
C6_RestoreNamedFailures ==
  (snapRet.op = "restore" /\ ~C2_Unsafe(snapRet.name)) =>
    LET p == SnapshotsDir \o <<snapRet.name \o <<".yaml">>>>
        old == snapPre[2]
        parses == p \in DOMAIN old /\ old[p].kind # "garbage"
        whole == /\ parses
                 /\ old[p].kind = "map"
                 /\ {"sessionState", "observations"} \subseteq DOMAIN old[p].doc
    IN /\ p \notin DOMAIN old => snapRet.error = "not found"
       /\ (p \in DOMAIN old /\ ~parses) => snapRet.error = "failed to read"
       /\ (parses /\ ~whole) => snapRet.error = "corrupted or invalid"
       /\ whole <=> snapRet.error = ""
       /\ whole <=> snapRet.value # <<>>

(***************************************************************************)
(* C7: for a valid name with no stored snapshot get returns undefined,     *)
(* exists false and delete false, without raising; delete(n) returns true  *)
(* exactly when a file for n existed, afterwards n does not exist and      *)
(* every other snapshot is unchanged.                                      *)
(***************************************************************************)
C7_AbsenceAndDelete ==
  (snapRet.op \in {"get", "exists", "delete"} /\ ~C2_Unsafe(snapRet.name)) =>
    LET p == SnapshotsDir \o <<snapRet.name \o <<".yaml">>>>
        old == snapPre[2]
    IN /\ p \notin DOMAIN old =>
            /\ snapRet.error = ""
            /\ snapRet.op = "get" => snapRet.value = <<>>
            /\ snapRet.op = "exists" => snapRet.value = <<FALSE>>
            /\ snapRet.op = "delete" => snapRet.value = <<FALSE>>
       /\ snapRet.op = "delete" =>
            /\ snapRet.error = ""
            /\ snapRet.value = <<p \in DOMAIN old>>
            /\ p \notin DOMAIN files /\ p \notin dirs
            /\ DOMAIN files = DOMAIN old \ {p}
            /\ \A q \in DOMAIN files : files[q] = old[q]
            /\ dirs = snapPre[1]

\* delete removed one snapshot and left another one on disk
C7_Witness ==
  /\ snapRet.op = "delete"
  /\ snapRet.value = <<TRUE>>
  /\ DOMAIN files # {}
  /\ DOMAIN snapSaved # {}

(***************************************************************************)
(* C8: list() returns one entry for every snapshot file that parses and    *)
(* carries a creation timestamp and skips every other file; the entries    *)
(* are ordered by creation timestamp descending; each reports the name,    *)
(* the description and skillCount = length of sessionState.history (0 when *)
(* absent); without a snapshots directory the result is empty.             *)
(***************************************************************************)
C8_Listed ==
  {p \in DOMAIN files :
     /\ Len(p) = 4 /\ C2_Inside(p)
     /\ files[p].kind = "map"
     /\ "createdAt" \in DOMAIN files[p].doc}

C8_Reports(e, p) ==
  LET doc == files[p].doc IN
  /\ e.createdAt = doc.createdAt
  /\ e.name = IF "name" \in DOMAIN doc THEN doc.name
              ELSE SubSeq(p[4], 1, Len(p[4]) - 1)
  /\ ("description" \in DOMAIN e) <=> ("description" \in DOMAIN doc)
  /\ "description" \in DOMAIN doc => e.description = doc.description
  /\ e.skillCount =
       IF "sessionState" \in DOMAIN doc /\ "history" \in DOMAIN doc.sessionState
       THEN Cardinality(DOMAIN doc.sessionState.history) ELSE 0

C8_ListComplete ==
  snapRet.op = "list" =>
    LET L == snapRet.value[1] IN
    /\ snapRet.error = ""
    /\ \E f \in [1..Len(L) -> C8_Listed] :
         /\ \A p \in C8_Listed : \E k \in 1..Len(L) : f[k] = p
         /\ \A j, k \in 1..Len(L) : f[j] = f[k] => j = k
         /\ \A k \in 1..Len(L) : C8_Reports(L[k], f[k])
    /\ \A j, k \in 1..Len(L) :
         (j < k /\ L[j].createdAt.ok /\ L[k].createdAt.ok)
           => L[j].createdAt.ms >= L[k].createdAt.ms
    /\ (\A d \in dirs : ~C2_Inside(d)) => L = <<>>

\* three files on disk, one skipped, two listed newest first
C8_Witness ==
  /\ snapRet.op = "list"
  /\ Cardinality(DOMAIN files) = 3
  /\ Len(snapRet.value[1]) = 2
  /\ snapRet.value[1][1].createdAt.ms > snapRet.value[1][2].createdAt.ms
  /\ snapRet.value[1][2].skillCount = 2

(***************************************************************************)
(* C10: totalCount counts exactly the collected events that satisfy every  *)
(* supplied filter: timestamp at or after since (inclusive), type in a     *)
(* non-empty types list, and source containing skillFilter as a substring  *)
(* or details.skills containing it as a member; a filter that is not       *)
(* supplied excludes nothing.                                              *)
(***************************************************************************)
C10_Passes(e, o) ==
  /\ "since" \in DOMAIN o =>
       (e.timestamp.ok /\ ~(e.timestamp.ms < o.since.ms))
  /\ ("types" \in DOMAIN o /\ o.types # <<>>) =>
       (\E k \in 1..Len(o.types) : o.types[k] = e.type)
  /\ "skillFilter" \in DOMAIN o =>
       \/ \E k \in 0..Len(e.source) :
            /\ k + Len(o.skillFilter) <= Len(e.source)
            /\ \A m \in 1..Len(o.skillFilter) : e.source[k + m] = o.skillFilter[m]
       \/ /\ "details" \in DOMAIN e
          /\ "skills" \in DOMAIN e.details
          /\ o.skillFilter \in {e.details.skills[k] : k \in 1..Len(e.details.skills)}

C10_PassCount ==
  Cardinality({k \in 1..Len(tlRet.collected) :
                 C10_Passes(tlRet.collected[k], tlRet.opts)})

ValidBuild ==
  /\ tlRet.op = "build"
  /\ "since" \in DOMAIN tlRet.opts => tlRet.opts.since.ok

C10_TotalCountIsFiltered ==
  ValidBuild => tlRet.totalCount = C10_PassCount

\* since and skillFilter both supplied: an event stamped exactly at since
\* is returned and other events were filtered out
C10_Witness ==
  /\ ValidBuild
  /\ {"since", "skillFilter"} \subseteq DOMAIN tlRet.opts
  /\ tlRet.totalCount >= 2
  /\ tlRet.totalCount < Len(tlRet.collected)
  /\ \E k \in 1..Len(tlRet.events) : tlRet.events[k].timestamp = tlRet.opts.since

(***************************************************************************)
(* C9: for every non-negative integer limit (default 50) build returns     *)
(* exactly the min(limit, totalCount) latest events that pass the filters, *)
(* in ascending timestamp order, and the events dropped are the oldest.    *)
(***************************************************************************)
C9_Limit == IF "limit" \in DOMAIN tlRet.opts THEN tlRet.opts.limit ELSE 50

C9_LatestWindow ==
  ValidBuild =>
    LET ev == tlRet.events
        n == IF C9_Limit < tlRet.totalCount THEN C9_Limit ELSE tlRet.totalCount
        passing == {k \in 1..Len(tlRet.collected) :
                      C10_Passes(tlRet.collected[k], tlRet.opts)}
    IN /\ tlRet.totalCount = Cardinality(passing)
       /\ Len(ev) = n
       /\ \A j, k \in 1..Len(ev) :
            (j < k /\ ev[j].timestamp.ok /\ ev[k].timestamp.ok)
              => ev[j].timestamp.ms <= ev[k].timestamp.ms
       /\ \A v \in {tlRet.collected[k] : k \in passing} :
            LET kept == Cardinality({k \in 1..Len(ev) : ev[k] = v})
                had == Cardinality({k \in passing : tlRet.collected[k] = v})
            IN /\ kept <= had
               /\ kept < had =>
                    \A k \in 1..Len(ev) :
                      (v.timestamp.ok /\ ev[k].timestamp.ok)
                        => v.timestamp.ms <= ev[k].timestamp.ms
       /\ \A k \in 1..Len(ev) : \E j \in passing : tlRet.collected[j] = ev[k]

(***************************************************************************)
(* C11: build called with a since value that does not parse as a date      *)
(* returns events = [] and totalCount = 0 without raising, whatever the    *)
(* session, activity log, snapshot and observation stores contain.         *)
(***************************************************************************)
C11_InvalidSince ==
  /\ tlRet.op = "build"
  /\ "since" \in DOMAIN tlRet.opts
  /\ ~tlRet.opts.since.ok

C19_Matches(a, sha) ==
  \/ a.commitSha = sha
  \/ /\ Len(sha) >= 4
     /\ Len(sha) <= Len(a.commitSha)
     /\ \A i \in 1..Len(sha) : a.commitSha[i] = sha[i]

C19_FirstMatch ==
  callRet.op = "getByCommit" =>
    LET hits == {k \in DOMAIN actL0 : C19_Matches(actL0[k], callRet.sha)}
    IN IF hits = {} THEN callRet.value = <<>>
       ELSE \E k \in hits :
              /\ \A j \in hits : k <= j
              /\ callRet.value = <<actL0[k]>>

(***************************************************************************)
(* C12: with no skill/file/limit option, SkillLineage.build returns        *)
(* exactly one entry per distinct skill name among the history records     *)
(* completed at or after since and the current execution (if it started at *)
(* or after since); each entry's executions is the number of those         *)
(* contributing records, its totalDurationMs is the sum of their durations *)
(* (durationMs for a history record, now minus start for the current       *)
(* execution), and its firstSeen/lastSeen are the minimum/maximum          *)
(* timestamp over the contributing records.                                *)
(***************************************************************************)
C12_AtOrAfterSince(ts, o) ==
  "since" \in DOMAIN o => (ts.ok /\ o.since.ok /\ ts.ms >= o.since.ms)

C12_Records ==
  LET state == tlSrc.session
      hist == IF state # <<>> /\ "history" \in DOMAIN state[1]
              THEN state[1].history ELSE <<>>
      fromHist == [k \in DOMAIN hist |->
                     [skill |-> hist[k].skillName, dur |-> hist[k].durationMs,
                      ts |-> hist[k].completedAt]]
      fromExec == IF state # <<>> /\ "currentExecution" \in DOMAIN state[1]
                  THEN <<[skill |-> state[1].currentExecution.skillName,
                          dur |-> now - state[1].currentExecution.startedAt.ms,
                          ts |-> state[1].currentExecution.startedAt]>>
                  ELSE <<>>
  IN SelectSeq(fromHist \o fromExec,
               LAMBDA r : C12_AtOrAfterSince(r.ts, callRet.opts))

C12_Unfiltered ==
  /\ callRet.op = "lineage"
  /\ DOMAIN callRet.opts \cap {"skill", "file", "limit"} = {}

C12_SeedsEntries ==
  C12_Unfiltered =>
    LET recs == C12_Records
        out == callRet.skills
    IN /\ {out[k].skillName : k \in DOMAIN out} = {recs[k].skill : k \in DOMAIN recs}
       /\ \A j, k \in DOMAIN out : out[j].skillName = out[k].skillName => j = k
       /\ \A k \in DOMAIN out :
            LET mine == SelectSeq(recs, LAMBDA r : r.skill = out[k].skillName)
            IN /\ out[k].executions = Len(mine)
               /\ out[k].totalDurationMs = Sum([i \in DOMAIN mine |-> mine[i].dur])
               /\ \E i \in DOMAIN mine : out[k].firstSeen = mine[i].ts
               /\ \E i \in DOMAIN mine : out[k].lastSeen = mine[i].ts
               /\ \A i \in DOMAIN mine :
                    /\ out[k].firstSeen.ms <= mine[i].ts.ms
                    /\ out[k].lastSeen.ms >= mine[i].ts.ms

(***************************************************************************)
(* C13: in every entry returned by SkillLineage.build, commits and         *)
(* filesModified contain no duplicate values, whatever combination of      *)
(* history records, current-execution tasks and activity-log rows          *)
(* contributed them, and the surviving values keep the order of their      *)
(* first occurrence.                                                       *)
(***************************************************************************)
C13_First(raw, v) ==
  CHOOSE p \in DOMAIN raw : raw[p] = v /\ \A q \in 1..(p - 1) : raw[q] # v

C13_FirstOccurrences(out, raw) ==
  /\ \A i, j \in DOMAIN out : out[i] = out[j] => i = j
  /\ {out[i] : i \in DOMAIN out} = {raw[p] : p \in DOMAIN raw}
  /\ \A i, j \in DOMAIN out : i < j => C13_First(raw, out[i]) < C13_First(raw, out[j])

C13_Contributed(e) ==
  LET idx == {k \in DOMAIN callRet.undeduped :
                callRet.undeduped[k].skillName = e.skillName}
  IN callRet.undeduped[CHOOSE k \in idx : TRUE]

C13_Deduplicated ==
  callRet.op = "lineage" =>
    \A k \in DOMAIN callRet.skills :
      LET e == callRet.skills[k]
          r == C13_Contributed(e)
      IN /\ C13_FirstOccurrences(e.commits, r.commits)
         /\ C13_FirstOccurrences(e.filesModified, r.filesModified)

C13_Witness ==
  /\ callRet.op = "lineage"
  /\ ActivityFile \in DOMAIN files
  /\ \E k \in DOMAIN callRet.skills :
       LET e == callRet.skills[k]
           r == C13_Contributed(e)
       IN /\ Len(e.commits) >= 3
          /\ Len(r.commits) > Len(e.commits)
          /\ Len(e.filesModified) >= 3
          /\ Len(r.filesModified) > Len(e.filesModified)
          /\ e.executions >= 2

(***************************************************************************)
(* C14: SkillLineage.build returns skills ordered by descending number of  *)
(* distinct files modified and files ordered by descending skill count     *)
(* and, among equal skill counts, descending commit count; when a limit is *)
(* given each list is the first limit items of that ranking, and           *)
(* stats.mostImpactfulSkill and stats.mostChangedFile are the first item   *)
(* of the returned skills and files lists, or null when the list is empty. *)
(***************************************************************************)
C14_Prefix(out, ranking, n) ==
  /\ Len(out) = (IF n < Len(ranking) THEN n ELSE Len(ranking))
  /\ \A k \in DOMAIN out : out[k] = ranking[k]

C14_RankedAndLimited ==
  callRet.op = "lineage" =>
    LET sk == callRet.skills
        fl == callRet.files
    IN /\ \A i, j \in DOMAIN sk :
            i < j => Cardinality(Range(sk[i].filesModified))
                       >= Cardinality(Range(sk[j].filesModified))
       /\ \A i, j \in DOMAIN fl :
            i < j => \/ Len(fl[i].skills) > Len(fl[j].skills)
                     \/ /\ Len(fl[i].skills) = Len(fl[j].skills)
                        /\ fl[i].commitCount >= fl[j].commitCount
       /\ "limit" \in DOMAIN callRet.opts =>
            /\ C14_Prefix(sk, callRet.rankedSkills, callRet.opts.limit)
            /\ C14_Prefix(fl, callRet.rankedFiles, callRet.opts.limit)
       /\ callRet.stats.mostImpactfulSkill =
            (IF sk = <<>> THEN <<>> ELSE <<sk[1].skillName>>)
       /\ callRet.stats.mostChangedFile =
            (IF fl = <<>> THEN <<>> ELSE <<fl[1].path>>)

(***************************************************************************)
(* C15: with options.skill = s, SkillLineage.build returns no skill entry  *)
(* other than the one for s, and its files list is exactly the set of      *)
(* files touched by s: every returned file lists s in its skills, and      *)
(* every file whose skills list contains s is returned.                    *)
(***************************************************************************)
C15_SkillOnly ==
  /\ callRet.op = "lineage"
  /\ "skill" \in DOMAIN callRet.opts
  /\ DOMAIN callRet.opts \cap {"file", "limit"} = {}

C15_SkillFilter ==
  C15_SkillOnly =>
    LET s == callRet.opts.skill
        lists(f) == \E i \in DOMAIN f.skills : f.skills[i] = s
    IN /\ \A k \in DOMAIN callRet.skills : callRet.skills[k].skillName = s
       /\ \A j, k \in DOMAIN callRet.skills : j = k
       /\ \A k \in DOMAIN callRet.files : lists(callRet.files[k])
       /\ \A k \in DOMAIN callRet.allFiles :
            lists(callRet.allFiles[k]) =>
              \E j \in DOMAIN callRet.files : callRet.files[j] = callRet.allFiles[k]

(***************************************************************************)
(* C17: SessionHandoff.generate lists in accomplished.tasks exactly the    *)
(* current-execution tasks with status completed followed by the history   *)
(* entries with status completed, and in pending.tasks exactly the         *)
(* current-execution tasks with status pending, in_progress or paused,     *)
(* each in stored order; no task appears in both sections, a failed task   *)
(* appears in neither, and an accomplished task carries a duration only    *)
(* when both its start and completion timestamps are present.              *)
(***************************************************************************)
C17_Tasks ==
  IF tlSrc.session # <<>> /\ "currentExecution" \in DOMAIN tlSrc.session[1]
  THEN tlSrc.session[1].currentExecution.tasks ELSE <<>>

C17_History ==
  IF tlSrc.session # <<>> /\ "history" \in DOMAIN tlSrc.session[1]
  THEN tlSrc.session[1].history ELSE <<>>

C17_Names(s) == [k \in DOMAIN s |-> s[k].name]

C17_Split ==
  callRet.op = "handoff" =>
    LET doneTasks == SelectSeq(C17_Tasks, LAMBDA t : t.status = "completed")
        doneHist == SelectSeq(C17_History, LAMBDA h : h.status = "completed")
        open == SelectSeq(C17_Tasks,
                  LAMBDA t : t.status = "pending" \/ t.status = "in_progress"
                             \/ t.status = "paused")
        acc == callRet.accomplished.tasks
        pen == callRet.pending.tasks
    IN /\ C17_Names(acc) = C17_Names(doneTasks)
                             \o [k \in DOMAIN doneHist |-> doneHist[k].skillName]
       /\ C17_Names(pen) = C17_Names(open)
       /\ \A i \in DOMAIN acc, j \in DOMAIN pen : acc[i].name # pen[j].name
       /\ \A k \in DOMAIN C17_Tasks :
            C17_Tasks[k].status = "failed" =>
              /\ \A i \in DOMAIN acc : acc[i].name # C17_Tasks[k].name
              /\ \A j \in DOMAIN pen : pen[j].name # C17_Tasks[k].name
       /\ \A k \in DOMAIN doneTasks :
            (acc[k].duration # <<>>) <=>
              ("startedAt" \in DOMAIN doneTasks[k] /\ "completedAt" \in DOMAIN doneTasks[k])

C17_Witness ==
  /\ callRet.op = "handoff"
  /\ Len(C17_Tasks) = 2
  /\ C17_Tasks[1].status = "paused"
  /\ C17_Tasks[2].status = "completed"
  /\ \E k \in DOMAIN C17_History : C17_History[k].status = "failed"
  /\ Len(callRet.accomplished.tasks) = 3
  /\ callRet.accomplished.tasks[1].duration = <<[m |-> 3]>>
  /\ Len(callRet.pending.tasks) = 1

(***************************************************************************)
(* C18: SessionHandoff.generate includes at most maxObservations           *)
(* observations in total across the errors, solutions and patterns buckets *)
(* (default 20), taken in descending relevance order, so no included       *)
(* observation has a lower relevance than an eligible observation that was *)
(* left out; with includeObservations = false all three buckets are empty. *)
(***************************************************************************)
C18_Eligible(x) ==
  \/ x.type = "error" /\ "error" \in DOMAIN x.content
  \/ x.type = "solution" /\ "solution" \in DOMAIN x.content
  \/ x.type = "pattern" /\ "context" \in DOMAIN x.content

C18_Stored ==
  IF tlSrc.observations.throws THEN {}
  ELSE {tlSrc.observations.list[k] : k \in DOMAIN tlSrc.observations.list}

C18_Total ==
  Len(callRet.observations.errors) + Len(callRet.observations.solutions)
    + Len(callRet.observations.patterns)

C18_Max ==
  IF "maxObservations" \in DOMAIN callRet.opts THEN callRet.opts.maxObservations
  ELSE 20

C18_Disabled ==
  "includeObservations" \in DOMAIN callRet.opts
    /\ callRet.opts.includeObservations = FALSE

C18_ObservationBudget ==
  callRet.op = "handoff" =>
    LET ids == {callRet.observations.taken[k] : k \in DOMAIN callRet.observations.taken}
        included == {x \in C18_Stored : x.id \in ids}
    IN IF C18_Disabled THEN C18_Total = 0
       ELSE /\ C18_Total <= C18_Max
            /\ Cardinality(included) = C18_Total
            /\ \A x \in included : C18_Eligible(x)
            /\ \A x \in included, y \in C18_Stored \ included :
                 C18_Eligible(y) => x.relevance >= y.relevance

C18_Witness ==
  /\ callRet.op = "handoff"
  /\ ~C18_Disabled
  /\ "maxObservations" \notin DOMAIN callRet.opts
  /\ C18_Total = 20
  /\ \E y \in C18_Stored :
       C18_Eligible(y) /\ \A k \in DOMAIN callRet.observations.taken :
                            callRet.observations.taken[k] # y.id

(***************************************************************************)
(* C16: for a project with no session document, no activity log, no        *)
(* snapshots and no observations (and no git commits or git inclusion      *)
(* disabled), SessionTimeline.build, SkillLineage.build,                   *)
(* SessionHandoff.generate and SessionExplainer.explain each return        *)
(* without raising a well-formed empty result: empty lists, zero counts,   *)
(* and null mostImpactfulSkill and mostChangedFile; calling them again     *)
(* returns the same empty result.                                          *)
(***************************************************************************)
C16_EmptyProject ==
  /\ tlSrc.session = <<>>
  /\ files = <<>>
  /\ dirs = {ProjectPath}
  /\ tlSrc.observations.throws \/ tlSrc.observations.list = <<>>

C16_NoGit(o) ==
  \/ tlSrc.git.throws
  \/ tlSrc.git.commits = <<>>
  \/ "includeGit" \in DOMAIN o /\ o.includeGit = FALSE

C16_EmptyLineage ==
  /\ callRet.skills = <<>>
  /\ callRet.files = <<>>
  /\ callRet.stats.totalSkillExecutions = 0
  /\ callRet.stats.totalCommits = 0
  /\ callRet.stats.totalFilesChanged = 0
  /\ callRet.stats.mostImpactfulSkill = <<>>
  /\ callRet.stats.mostChangedFile = <<>>
  /\ callRet.stats.errorProneFiles = <<>>

C16_EmptyHandoff ==
  /\ callRet.accomplished.tasks = <<>>
  /\ callRet.accomplished.commits = <<>>
  /\ callRet.pending.tasks = <<>>
  /\ callRet.pending.commits = <<>>
  /\ callRet.keyFiles = <<>>
  /\ callRet.observations.errors = <<>>
  /\ callRet.observations.solutions = <<>>
  /\ callRet.observations.patterns = <<>>
  /\ callRet.recommendations = <<>>

C16_EmptyExplanation ==
  /\ callRet.skillsUsed = <<>>
  /\ callRet.tasks = <<>>
  /\ callRet.filesModified = <<>>
  /\ callRet.decisions = <<>>
  /\ callRet.observationCounts.total = 0
  /\ callRet.observationCounts.errors = 0
  /\ callRet.observationCounts.solutions = 0
  /\ callRet.observationCounts.patterns = 0
  /\ callRet.gitCommits = 0

C16_EmptyResults ==
  C16_EmptyProject =>
    /\ (tlRet.op = "build" /\ C16_NoGit(tlRet.opts)) =>
         (tlRet.events = <<>> /\ tlRet.totalCount = 0)
    /\ callRet.op = "lineage" => C16_EmptyLineage
    /\ (callRet.op = "handoff" /\ C16_NoGit(callRet.opts)) => C16_EmptyHandoff
    /\ (callRet.op = "explain" /\ C16_NoGit(callRet.opts)) => C16_EmptyExplanation

C16_Witness ==
  /\ C16_EmptyProject
  /\ tlRet.op = "build"
  /\ C16_NoGit(tlRet.opts)
  /\ actData["lineage"] # <<>>
  /\ actData["handoff"] # <<>>
  /\ callRet.op = "explain"
  /\ C16_NoGit(callRet.opts)

(***************************************************************************)
(* C20: SessionTimeline.build, SkillLineage.build, SessionHandoff.generate *)
(* and SessionExplainer.explain never write: after any of them runs, with  *)
(* any options and any store contents, the session document, the           *)
(* activity-log file, every snapshot file and the observation store are    *)
(* unchanged and no file or directory has been created.                    *)
(***************************************************************************)
C20_BuildersNeverWrite ==
  [][dirs' = dirs /\ files' = files /\ tlSrc' = tlSrc]_vars

C20_Witness ==
  /\ tlRet.op = "build"
  /\ tlRet.events # <<>>
  /\ callRet.op = "handoff"
  /\ actData["lineage"] # <<>>
  /\ ActivityFile \in DOMAIN files
  /\ SnapshotsDir \notin dirs
  /\ tlSrc.session # <<>>

(***************************************************************************)
(* C21: when two ActivityLog instances on one project interleave record    *)
(* calls, every write replaces the whole stored document by the writing    *)
(* instance's own in-memory list with the new entry in front, whatever the *)
(* file held: the file always equals the document of the instance that     *)
(* wrote last, and entries the other instance wrote after that instance    *)
(* first loaded the file are not in it.                                    *)
(***************************************************************************)
C21_Writer(e) == IF e.message = <<"m">> THEN "log" ELSE "peer"

\* the list an instance holds in memory: its cached one, else the one it
\* reads from the file now
C21_Memory(i) ==
  IF actData[i] # <<>> THEN actData[i][1].activities
  ELSE IF ActivityFile \in DOMAIN files /\ files[ActivityFile].kind = "map"
          /\ "activities" \in DOMAIN files[ActivityFile].doc
       THEN files[ActivityFile].doc.activities
       ELSE <<>>

C21_WholeDocument ==
  actRecorded # <<>> =>
    /\ ActivityFile \in DOMAIN files
    /\ files[ActivityFile].kind = "map"
    /\ LET w == C21_Writer(actRecorded[Len(actRecorded)])
       IN /\ actData[w] # <<>>
          /\ files[ActivityFile].doc = actData[w][1]
          /\ \A k \in DOMAIN actRecorded :
               C21_Writer(actRecorded[k]) = w =>
                 actRecorded[k] \in Range(files[ActivityFile].doc.activities)

C21_Write ==
  actRecorded' # actRecorded =>
    LET e == actRecorded'[Len(actRecorded')]
        w == C21_Writer(e)
    IN /\ files'[ActivityFile].doc.activities = <<e>> \o C21_Memory(w)
       /\ \A k \in DOMAIN actRecorded :
            /\ C21_Writer(actRecorded[k]) # w
            /\ actRecorded[k] \notin Range(C21_Memory(w))
            => actRecorded[k] \notin Range(files'[ActivityFile].doc.activities)

C21_LastWriterWins == [](C21_WholeDocument) /\ [][C21_Write]_vars

\* both processes have recorded, and the stored log has lost an entry of
\* the process that did not write last
C21_Witness ==
  /\ Len(actRecorded) >= 2
  /\ ActivityFile \in DOMAIN files
  /\ LET w == C21_Writer(actRecorded[Len(actRecorded)])
     IN \E k \in DOMAIN actRecorded :
          /\ C21_Writer(actRecorded[k]) # w
          /\ actRecorded[k] \notin Range(files[ActivityFile].doc.activities)

(***************************************************************************)
(* C22: when the activity file is missing, unparseable or holds a document *)
(* without an activities list, getRecent, getBySkill, getByCommit and      *)
(* getMostUsedSkills return an empty result (undefined for getByCommit),   *)
(* and the first record after that creates .skillkit if it is absent and   *)
(* leaves a stored log holding the new entry alone.                        *)
(***************************************************************************)
\* the file as the first call finds it holds no activities list
C22_NoLog ==
  \/ ActivityFile \notin DOMAIN files
  \/ files[ActivityFile].kind # "map"
  \/ "activities" \notin DOMAIN files[ActivityFile].doc

C22_Reads == {"getRecent", "getBySkill", "getByCommit", "getMostUsedSkills"}

C22_EmptyLogOnBadFile ==
  /\ actRecorded = <<>> /\ C22_NoLog /\ callRet.op \in C22_Reads
       => callRet.value = <<>>
  /\ actL0 = <<>> /\ Len(actRecorded) = 1
       => /\ SkillkitDir \in dirs
          /\ ActivityFile \in DOMAIN files
          /\ files[ActivityFile].kind = "map"
          /\ files[ActivityFile].doc.activities = <<actRecorded[1]>>

\* a read found no log and answered empty, then the first record created
\* the directory and the file
C22_Witness ==
  /\ actL0 = <<>>
  /\ callRet.op \in C22_Reads
  /\ callRet.value = <<>>
  /\ Len(actRecorded) = 1
  /\ files[ActivityFile].doc.activities = <<actRecorded[1]>>

(***************************************************************************)
(* C23: before filtering, build (with a since that parses, if given)       *)
(* collects exactly one skill_start event if a current execution exists,   *)
(* one task_progress event per current-execution task that has a start     *)
(* time and status in_progress, completed or failed, one skill_complete    *)
(* event per history entry, one decision event per decision, one           *)
(* observation event per stored observation, one snapshot event per listed *)
(* snapshot and, with git inclusion enabled, one git_commit event per      *)
(* git-log entry whose source is the active skills of the activity-log row *)
(* matched by the short hash, or "git" when the log yields no skills.      *)
(***************************************************************************)
C23_Count(type) ==
  Cardinality({k \in 1..Len(tlRet.collected) : tlRet.collected[k].type = type})

C23_Session == IF tlSrc.session = <<>> THEN NoKey ELSE tlSrc.session[1]

C23_ListOf(key) == IF key \in DOMAIN C23_Session THEN C23_Session[key] ELSE <<>>

C23_Tasks ==
  IF "currentExecution" \in DOMAIN C23_Session
  THEN C23_Session.currentExecution.tasks ELSE <<>>

C23_GitOn ==
  ~("includeGit" \in DOMAIN tlRet.opts /\ tlRet.opts.includeGit = FALSE)

C23_Counts ==
  /\ C23_Count("skill_start") =
       (IF "currentExecution" \in DOMAIN C23_Session THEN 1 ELSE 0)
  /\ C23_Count("task_progress") =
       Cardinality({k \in 1..Len(C23_Tasks) :
                      /\ "startedAt" \in DOMAIN C23_Tasks[k]
                      /\ C23_Tasks[k].status \in {"in_progress", "completed", "failed"}})
  /\ \A k \in 1..Len(C23_Tasks) :
       (\E j \in 1..Len(tlRet.collected) :
          /\ tlRet.collected[j].type = "task_progress"
          /\ tlRet.collected[j].details.taskId = C23_Tasks[k].id)
         <=> /\ "startedAt" \in DOMAIN C23_Tasks[k]
             /\ C23_Tasks[k].status \in {"in_progress", "completed", "failed"}
  /\ C23_Count("skill_complete") = Len(C23_ListOf("history"))
  /\ C23_Count("decision") = Len(C23_ListOf("decisions"))
  /\ C23_Count("observation") = Len(tlSrc.observations.list)
  /\ C23_Count("snapshot") = Cardinality(C8_Listed)
  /\ C23_Count("git_commit") = (IF C23_GitOn THEN Len(tlSrc.git.commits) ELSE 0)
  /\ Len(tlRet.collected) =
       C23_Count("skill_start") + C23_Count("task_progress")
       + C23_Count("skill_complete") + C23_Count("decision")
       + C23_Count("observation") + C23_Count("snapshot") + C23_Count("git_commit")

\* the activity rows stored on disk
C23_Rows ==
  IF /\ ActivityFile \in DOMAIN files
     /\ files[ActivityFile].kind = "map"
     /\ "activities" \in DOMAIN files[ActivityFile].doc
  THEN files[ActivityFile].doc.activities ELSE <<>>

\* the source the claim gives the event of a commit
C23_SourceOf(commit) ==
  LET RECURSIVE joined(_)
      joined(s) == IF Len(s) = 1 THEN s[1]
                   ELSE s[1] \o <<",", " ">> \o joined(Tail(s))
      short == commit.shortHash
      hits == {k \in 1..Len(C23_Rows) :
                 \/ C23_Rows[k].commitSha = short
                 \/ /\ Len(short) >= 4
                    /\ Len(short) <= Len(C23_Rows[k].commitSha)
                    /\ SubSeq(C23_Rows[k].commitSha, 1, Len(short)) = short}
      first == CHOOSE k \in hits : \A j \in hits : k <= j
  IN IF hits = {} \/ C23_Rows[first].activeSkills = <<>>
     THEN <<"g", "i", "t">>
     ELSE joined(C23_Rows[first].activeSkills)

C23_GitSources ==
  LET git == SelectSeq(tlRet.collected, LAMBDA e : e.type = "git_commit")
  IN \A k \in 1..Len(git) :
       /\ k <= Len(tlSrc.git.commits)
       /\ git[k].details.sha = tlSrc.git.commits[k].hash
       /\ git[k].source = C23_SourceOf(tlSrc.git.commits[k])

C23_CollectsExactly ==
  ValidBuild => (C23_Counts /\ C23_GitSources)

\* the part of the statement about the number of events of each type
C23_CountsOnly ==
  ValidBuild => C23_Counts

(***************************************************************************)
(* C24: merging the activity log, build adds each logged commit's SHA to   *)
(* the entry of every active skill that is already tracked and creates no  *)
(* new skill entry, associates each changed file with each active skill,   *)
(* and increments each changed file's commit counter exactly once per      *)
(* logged commit, however many skills were active at that commit.          *)
(***************************************************************************)
\* the logged commits the merge reads: those not older than a given since
C24_Rows ==
  LET rows == IF /\ ActivityFile \in DOMAIN files
                 /\ files[ActivityFile].kind = "map"
                 /\ "activities" \in DOMAIN files[ActivityFile].doc
              THEN files[ActivityFile].doc.activities ELSE <<>>
      o == callRet.opts
  IN SelectSeq(rows, LAMBDA r : ~("since" \in DOMAIN o /\ r.committedAt.ok
                                    /\ o.since.ok /\ r.committedAt.ms < o.since.ms))

C24_Set(s) == {s[k] : k \in 1..Len(s)}

\* skill entries before and after the merge: the same names, and each entry
\* gains exactly the SHAs of the logged commits it was active at
C24_Commits ==
  LET before == callRet.seeded.skills
      after == callRet.undeduped
  IN /\ Len(after) = Len(before)
     /\ \A k \in 1..Len(before) :
          /\ after[k].skillName = before[k].skillName
          /\ C24_Set(after[k].commits) =
               C24_Set(before[k].commits)
               \cup {C24_Rows[j].commitSha : j \in
                       {i \in 1..Len(C24_Rows) :
                          before[k].skillName \in C24_Set(C24_Rows[i].activeSkills)}}
          /\ Len(after[k].commits) = Len(before[k].commits)
               + Cardinality(C24_Set(after[k].commits) \ C24_Set(before[k].commits))

C24_File(fl, f) ==
  LET idx == {k \in 1..Len(fl) : fl[k].path = f}
  IN IF idx = {} THEN [skills |-> {}, commitCount |-> 0]
     ELSE LET e == fl[CHOOSE k \in idx : TRUE]
          IN [skills |-> C24_Set(e.skills), commitCount |-> e.commitCount]

C24_Paths ==
  {callRet.seeded.files[k].path : k \in 1..Len(callRet.seeded.files)}
  \cup UNION {C24_Set(C24_Rows[j].filesChanged) : j \in 1..Len(C24_Rows)}

\* every changed file is tied to every active skill of its commit
C24_Associations ==
  \A f \in C24_Paths :
    C24_File(callRet.allFiles, f).skills =
      C24_File(callRet.seeded.files, f).skills
      \cup UNION {C24_Set(C24_Rows[j].activeSkills) : j \in
                    {i \in 1..Len(C24_Rows) : f \in C24_Set(C24_Rows[i].filesChanged)}}

\* the commit counter grows by the number of logged commits that changed the file
C24_Counter ==
  \A f \in C24_Paths :
    C24_File(callRet.allFiles, f).commitCount =
      C24_File(callRet.seeded.files, f).commitCount
      + Cardinality({i \in 1..Len(C24_Rows) : f \in C24_Set(C24_Rows[i].filesChanged)})

C24_ActivityMerge ==
  callRet.op = "lineage" => (C24_Commits /\ C24_Associations /\ C24_Counter)

\* the part of the statement about skill entries and file associations
C24_EntriesAndAssociations ==
  callRet.op = "lineage" => (C24_Commits /\ C24_Associations)

(***************************************************************************)
(* C25: generate's keyFiles holds each path at most once, covers exactly   *)
(* the files modified by current-execution tasks or history entries, and   *)
(* is sorted by path; a file of a current-execution task is tagged         *)
(* "modified" if its owning task is completed and "in-progress" otherwise, *)
(* a file found only in history is tagged "modified", and a history entry  *)
(* never overrides the tag given by a current-execution task.              *)
(***************************************************************************)
C25_Session == IF tlSrc.session = <<>> THEN NoKey ELSE tlSrc.session[1]

C25_Tasks ==
  IF "currentExecution" \in DOMAIN C25_Session
  THEN C25_Session.currentExecution.tasks ELSE <<>>

C25_History ==
  IF "history" \in DOMAIN C25_Session THEN C25_Session.history ELSE <<>>

C25_FilesOf(r) ==
  IF "filesModified" \in DOMAIN r
  THEN {r.filesModified[k] : k \in 1..Len(r.filesModified)} ELSE {}

\* the tasks of the current execution that modified f
C25_Owners(f) == {k \in 1..Len(C25_Tasks) : f \in C25_FilesOf(C25_Tasks[k])}

\* path a sorts strictly before path b
C25_Before(a, b) ==
  LET abc == <<"a", "b", "c", "d", "e", "f", "g", "h", "i", "j", "k", "l", "m",
               "n", "o", "p", "q", "r", "s", "t", "u", "v", "w", "x", "y", "z">>
      rank(c) == CHOOSE k \in 1..Len(abc) : abc[k] = c
      common == {n \in 0..Len(a) : n <= Len(b) /\ \A i \in 1..n : a[i] = b[i]}
      n == CHOOSE m \in common : \A x \in common : x <= m
  IN IF n = Len(a) THEN n < Len(b)
     ELSE n < Len(b) /\ rank(a[n + 1]) < rank(b[n + 1])

C25_KeyFiles ==
  callRet.op = "handoff" =>
    LET K == callRet.keyFiles IN
    /\ \A j, k \in 1..Len(K) : j < k => C25_Before(K[j].path, K[k].path)
    /\ {K[k].path : k \in 1..Len(K)} =
         UNION {C25_FilesOf(C25_Tasks[k]) : k \in 1..Len(C25_Tasks)}
         \cup UNION {C25_FilesOf(C25_History[k]) : k \in 1..Len(C25_History)}
    /\ \A k \in 1..Len(K) :
         IF C25_Owners(K[k].path) = {}
         THEN K[k].changeType = "modified"
         ELSE \E t \in C25_Owners(K[k].path) :
                K[k].changeType = (IF C25_Tasks[t].status = "completed"
                                   THEN "modified" ELSE "in-progress")

\* a file of an unfinished task that history lists too keeps "in-progress",
\* next to a file only history knows
C25_Witness ==
  /\ callRet.op = "handoff"
  /\ Len(callRet.keyFiles) >= 3
  /\ \E k \in 1..Len(callRet.keyFiles) :
       /\ callRet.keyFiles[k].changeType = "in-progress"
       /\ \E h \in 1..Len(C25_History) :
            callRet.keyFiles[k].path \in C25_FilesOf(C25_History[h])
  /\ \E k \in 1..Len(callRet.keyFiles) :
       /\ C25_Owners(callRet.keyFiles[k].path) = {}
       /\ callRet.keyFiles[k].changeType = "modified"

(***************************************************************************)
(* C26: generate's recommendations are, in this order: one line naming all *)
(* pending task names iff pending.tasks is non-empty; one line giving the  *)
(* number of error observations for which no solution observation has an  *)
(* equal action iff that number is positive; and, only with git inclusion  *)
(* enabled, one line per file changed in at least 3 of the 50 most recent  *)
(* activity-log entries, in descending change count, at most 3 lines.      *)
(***************************************************************************)
C26_Unresolved ==
  LET errors == callRet.observations.errors
      solutions == callRet.observations.solutions
  IN Cardinality({k \in 1..Len(errors) :
                    \A j \in 1..Len(solutions) : solutions[j].action # errors[k].action})

\* the 50 most recent entries of the stored log
C26_Recent ==
  LET rows == IF /\ ActivityFile \in DOMAIN files
                 /\ files[ActivityFile].kind = "map"
                 /\ "activities" \in DOMAIN files[ActivityFile].doc
              THEN files[ActivityFile].doc.activities ELSE <<>>
  IN SubSeq(rows, 1, IF Len(rows) < 50 THEN Len(rows) ELSE 50)

\* the number of those entries that changed f
C26_Changes(f) ==
  Cardinality({i \in 1..Len(C26_Recent) :
                 \E k \in 1..Len(C26_Recent[i].filesChanged) :
                   C26_Recent[i].filesChanged[k] = f})

C26_Churning ==
  {f \in UNION {{C26_Recent[i].filesChanged[k] : k \in 1..Len(C26_Recent[i].filesChanged)} :
                  i \in 1..Len(C26_Recent)} : C26_Changes(f) >= 3}

C26_Recommendations ==
  callRet.op = "handoff" =>
    LET R == callRet.recommendations
        names == callRet.pending.tasks
        RECURSIVE joined(_)
        joined(s) == IF Len(s) = 1 THEN s[1].name
                     ELSE s[1].name \o <<",", " ">> \o joined(Tail(s))
        np == IF names # <<>> THEN 1 ELSE 0
        ne == IF C26_Unresolved > 0 THEN 1 ELSE 0
        gitOn == ~("includeGit" \in DOMAIN callRet.opts /\ callRet.opts.includeGit = FALSE)
        churn == SubSeq(R, np + ne + 1, Len(R))
    IN /\ Len(R) >= np + ne
       /\ np = 1 => R[1] = [line |-> "Complete pending tasks", names |-> joined(names)]
       /\ ne = 1 => R[np + 1] = [line |-> "Resolve unresolved error(s)",
                                 count |-> C26_Unresolved]
       /\ ~gitOn => churn = <<>>
       /\ gitOn =>
            /\ Len(churn) = (IF Cardinality(C26_Churning) < 3
                             THEN Cardinality(C26_Churning) ELSE 3)
            /\ \A k \in 1..Len(churn) :
                 /\ churn[k].line = "Review high-churn file"
                 /\ churn[k].file \in C26_Churning
                 /\ churn[k].count = C26_Changes(churn[k].file)
            /\ \A j, k \in 1..Len(churn) :
                 j < k => (churn[j].file # churn[k].file /\ churn[j].count >= churn[k].count)
            /\ \A f \in C26_Churning :
                 (\A k \in 1..Len(churn) : churn[k].file # f)
                   => \A k \in 1..Len(churn) : churn[k].count >= C26_Changes(f)

\* the part of the statement about the first two lines
C26_PendingAndErrors ==
  callRet.op = "handoff" =>
    LET R == callRet.recommendations
        np == IF callRet.pending.tasks # <<>> THEN 1 ELSE 0
        ne == IF C26_Unresolved > 0 THEN 1 ELSE 0
    IN /\ Len(R) >= np + ne
       /\ np = 1 <=> (R # <<>> /\ R[1].line = "Complete pending tasks")
       /\ ne = 1 <=> (Len(R) > np /\ R[np + 1].line = "Resolve unresolved error(s)")
       /\ ne = 1 => R[np + 1].count = C26_Unresolved

(***************************************************************************)
(* C27: explain sets agent to the agent named by the configuration loader  *)
(* whenever the configuration names one; otherwise, also when loading the  *)
(* configuration fails, to the current execution's skillSource when a      *)
(* current execution exists; otherwise to "unknown".                       *)
(***************************************************************************)
\* the label used when the configuration names no agent
C27_Fallback ==
  IF tlSrc.session # <<>> /\ "currentExecution" \in DOMAIN tlSrc.session[1]
  THEN tlSrc.session[1].currentExecution.skillSource
  ELSE <<"unknown">>

\* the configuration loads and its agent is set; "universal" is the value the
\* loader gives when nothing is configured, so either reading is admitted for it
C27_AgentResolution ==
  callRet.op = "explain" =>
    IF tlSrc.config.throws \/ tlSrc.config.agent = <<>>
    THEN callRet.agent = C27_Fallback
    ELSE IF tlSrc.config.agent = <<"universal">>
    THEN callRet.agent \in {<<"universal">>, C27_Fallback}
    ELSE callRet.agent = tlSrc.config.agent

\* the statement for projects that have a session document
C27_WithSession ==
  (callRet.op = "explain" /\ tlSrc.session # <<>>) =>
    IF tlSrc.config.throws \/ tlSrc.config.agent = <<>>
       \/ tlSrc.config.agent = <<"universal">>
    THEN callRet.agent = C27_Fallback
    ELSE callRet.agent = tlSrc.config.agent

(***************************************************************************)
(* C28: `session snapshot save n` followed later by `session snapshot      *)
(* restore n`, with any changes to the session in between, leaves the      *)
(* session with currentExecution, history and decisions equal to those     *)
(* captured at save time and leaves the snapshot file of n unchanged;      *)
(* `restore` of a name that has no snapshot, and `save` when no session    *)
(* exists, report failure and change neither the session nor the snapshot  *)
(* store.                                                                  *)
(***************************************************************************)
C28_File(name) == Append(SnapshotsDir, name \o <<".yaml">>)

C28_Field(r, k) == IF k \in DOMAIN r THEN <<r[k]>> ELSE <<>>

\* a restore that succeeded: the three fields are those saved under the name
C28_Restores ==
  (callRet'.op = "snapshot restore" /\ callRet'.code = 0) =>
    LET n == callRet'.name IN
    /\ n \in DOMAIN snapSaved
    /\ tlSrc'.session # <<>>
    /\ \A k \in {"currentExecution", "history", "decisions"} :
         C28_Field(tlSrc'.session[1], k) = C28_Field(snapSaved[n].sessionState, k)
    /\ C28_File(n) \in DOMAIN files
    /\ C28_File(n) \in DOMAIN files'
    /\ files'[C28_File(n)] = files[C28_File(n)]

\* the two failures: nothing is written
C28_Fails ==
  /\ (callRet'.op = "snapshot restore" /\ C28_File(callRet'.name) \notin DOMAIN files)
       => (callRet'.code = 1 /\ tlSrc' = tlSrc /\ files' = files /\ dirs' = dirs)
  /\ (callRet'.op = "snapshot save" /\ tlSrc.session = <<>>)
       => (callRet'.code = 1 /\ tlSrc' = tlSrc /\ files' = files /\ dirs' = dirs)

C28_SaveThenRestore == [][C28_Restores /\ C28_Fails]_vars

\* two names are saved, and a snapshot without a current execution was
\* restored over another session document
C28_Witness ==
  /\ callRet.op = "snapshot restore"
  /\ callRet.code = 0
  /\ callRet.name \in DOMAIN snapSaved
  /\ "currentExecution" \notin DOMAIN tlSrc.session[1]
  /\ tlSrc.session[1].history = snapSaved[callRet.name].sessionState.history
  /\ tlSrc.session[1].history # <<>>
  /\ tlSrc.session[1].lastActivity # snapSaved[callRet.name].sessionState.lastActivity
  /\ Cardinality(DOMAIN snapSaved) = 2

(***************************************************************************)
(* C29: in the result of build called without skill, file or limit         *)
(* options, every skill name listed in any file's skills has an entry in   *)
(* the skills list, and every path in any skill entry's filesModified has  *)
(* an entry in the files list.                                             *)
(***************************************************************************)
C29_Unfiltered ==
  /\ callRet.op = "lineage"
  /\ DOMAIN callRet.opts \cap {"skill", "file", "limit"} = {}

C29_SkillNames == {callRet.skills[k].skillName : k \in 1..Len(callRet.skills)}

C29_Paths == {callRet.files[k].path : k \in 1..Len(callRet.files)}

C29_FilesHaveSkills ==
  \A k \in 1..Len(callRet.files) :
    \A j \in 1..Len(callRet.files[k].skills) :
      callRet.files[k].skills[j] \in C29_SkillNames

C29_SkillsHaveFiles ==
  \A k \in 1..Len(callRet.skills) :
    \A j \in 1..Len(callRet.skills[k].filesModified) :
      callRet.skills[k].filesModified[j] \in C29_Paths

C29_MutuallyConsistent ==
  C29_Unfiltered => (C29_FilesHaveSkills /\ C29_SkillsHaveFiles)

\* the half of the statement that goes from skill entries to files
C29_EntriesPointToFiles ==
  C29_Unfiltered => C29_SkillsHaveFiles

(***************************************************************************)
(* C30: after any sequence of save and delete calls with valid names on an *)
(* initially empty store, the set of names list() returns equals the set   *)
(* of names n for which exists(n) is true, which equals the set of names   *)
(* saved and not deleted since; list() never holds a name twice and every  *)
(* listed name can be restored.                                            *)
(***************************************************************************)
\* the valid names among those the calls use
C30_Names == {n \in SnapNames : n # <<>> /\ ~C2_Unsafe(n)}

C30_StoreConsistent ==
  \A order \in Perms(DirEntries) :
    LET L == list(order).ret.value[1]
        listed == {L[k].name : k \in 1..Len(L)}
        existing == {n \in C30_Names : exists(n).ret.value = <<TRUE>>}
    IN /\ list(order).ret.error = ""
       /\ listed = existing
       /\ existing = DOMAIN snapSaved
       /\ Len(L) = Cardinality(listed)
       /\ \A n \in listed :
            /\ restore(n).ret.error = ""
            /\ restore(n).ret.value = <<snapSaved[n]>>

\* two names were saved and one of them has just been deleted
C30_Witness ==
  /\ snapRet.op = "delete"
  /\ snapRet.value = <<TRUE>>
  /\ Cardinality(DOMAIN snapSaved) = 1
  /\ snapRet.name \in C30_Names \ DOMAIN snapSaved
  /\ Cardinality(DOMAIN snapPre[2]) = 2

====
